---- MODULE Spec2Model ----
(***************************************************************************)
(* Verification model of db-illuminator: the annotation-to-accuracy        *)
(* evaluation pipeline.  Each part of the repository that is modelled has   *)
(* its own specification over the shared variables:                        *)
(*                                                                         *)
(*   SpecScorer  - the run-spider-evaluation edge function and its         *)
(*                 compareResults scorer (src/unnamed/part_008)            *)
(*   SpecHandler - the pages/api spider-evaluation handler, one loop       *)
(*                 iteration per benchmark question; SpecHandlerLive adds  *)
(*                 fairness and an external call that never returns        *)
(*   SpecEval    - SpiderEvaluationRunner.handleRunEvaluation              *)
(*                 (src/unnamed/part_000) driving runSpiderEvaluation      *)
(*                 (src/src/lib/evaluationService.ts)                      *)
(*   SpecAnnotate - generateDatabaseAnnotations and the                    *)
(*                 generate-annotations edge function (part_007)           *)
(*   SpecInteractive - InteractiveAnnotationHandler driven to              *)
(*                 processUserAnswersAndGenerateAnnotations                *)
(*   SpecNavigate - the same handler mounted with any question set         *)
(*   SpecReconcile - processUserAnswersAndGenerateAnnotations applied to   *)
(*                 bounded inputs                                          *)
(*   SpecColumns - the question generators, column by column               *)
(*   SpecStandard - standard-mode annotation of one database, repeated     *)
(*   SpecSamples - the edge function's sample rows                         *)
(*   SpecWizard  - EvaluationContext and the Index page's five steps       *)
(*   SpecGenerator - AnnotationGenerator's progress timer                  *)
(*   SpecSavedRuns - savedRunsService over localStorage                    *)
(***************************************************************************)
EXTENDS Integers, Sequences, FiniteSets, TLC

VARIABLES
    \* run-spider-evaluation edge function (part_008)
    scRequest,      \* <<>> or <<request>>: the request being served
    scResponse,     \* <<>> or <<response>>
    \* pages/api/ spider-evaluation.ts handler
    hPc,            \* "idle" | "loop" | "done" | "hung"
    hQuestions,     \* req.body.questions: sequence of question ids
    hIdx,           \* number of questions the for-loop has consumed
    hResults,       \* the results array
    hConnected,     \* whether the Snowflake connection is still up
    hOutcomes,      \* what the external calls did for each consumed question
    hConnectOk,     \* whether connect and USE DATABASE succeeded
    hLost,          \* <<>> or <<results recorded when the connection dropped>>
    hResponse,      \* <<>> or <<response>>
    hFailedPhase,   \* <<>> or <<the step of lines 25-43 whose promise rejected>>
    \* EvaluationContext + Index page + SpiderEvaluationRunner + evaluationService
    selectedDatabase,     \* state.selectedDatabase: <<>> or <<database>>
    annotations,          \* state.annotations: set of annotated table names
    customPrompt,         \* state.customPrompt
    evaluationResults,    \* state.evaluationResults: <<>> or <<report>>
    currentStep,          \* state.currentStep
    showDatabaseSelector, \* Index page: the selector replaces the step component
    isRunning, progress, currentPhase, results, error,   \* runner useState cells
    runPc,          \* position of handleRunEvaluation: "idle" | "phases" | "await"
    runI,           \* loop counter i of handleRunEvaluation
    svcPc,          \* position of runSpiderEvaluation: "idle" | "phases"
    svcNext,        \* index (1-based) of the next phase simulateEvaluationSteps will start
    svcLog,         \* console log of "Executing phase: <name>" lines, in order
    svcResult,      \* <<>> or <<EvaluationResults>> the service promise resolved with
    verdictLog,     \* order in which the per-variant verdict objects were constructed
    svcDraws,       \* <<>> or <<the Math.random() draws behind svcResult>>
    \* generateDatabaseAnnotations and the generate-annotations edge function
    annPc,          \* "idle" | "model" | "catch" | "edgeModel" | "client" | "done"
    annRequest,     \* <<>> or <<[path, database, processType]>> of the running call
    annConfig,      \* the credentials in force: [user, password, apiKey]
    annSchemaFetches, \* number of calls of getActualDatabaseSchema made by the call
    annSchemaErrors,  \* messages of the errors those calls threw, in order
    annTables,      \* schemaInfo.tables of the try block
    annSample,      \* sampleData
    annModel,       \* <<>> or <<outcome of the model call>>
    annCaught,      \* <<>> or <<message of the error the catch block received>>
    annEdgeResponse, \* <<>> or <<answer of the edge function>>
    annOutcome,     \* <<>> or <<what the caller of generateDatabaseAnnotations got>>
    \* AnnotationGeneration (part_003) + InteractiveAnnotationHandler + reconciliation
    interactiveResult,    \* part_003 state: <<>> or <<questions of the mounted handler>>
    answers,              \* handler state: table -> key -> "question_N" -> answer
    currentTableIndex,    \* handler state (0-based)
    completedAnswers,     \* <<>> or <<the argument onAnswersComplete was called with>>
    generatedAnnotations, \* part_003 state: the final annotations ([] until set)
    rcInput,        \* <<>> or <<[questions, userAnswers]>> of a direct reconciliation call
    rcResult,       \* <<>> or <<what that call returned>>
    \* the question generators, one column at a time
    cqInput,        \* <<>> or <<[generator, database, table, column, col]>>
    cqResult,       \* <<>> or <<the ColumnQuestion built for it>>
    \* standard mode run twice
    stInput,        \* <<>> or <<[generator, database]>>
    stOutputs,      \* the annotations returned by the runs so far, in order
    \* sample rows of the edge function
    smRequest,      \* <<>> or <<[database, processType, rowLimit]>>, rowLimit optional
    smData,         \* <<>> or <<sampleData: per table, tableName and sampleRows>>
    \* the wizard from its initial state
    wzState,        \* EvaluationContext state
    wzSelector,     \* Index page: showDatabaseSelector
    wzGenerated,    \* AnnotationGenerator: table names of generatedAnnotations
    wzResults,      \* SpiderEvaluationRunner: results of the mounted runner
    wzMountedRun,   \* 1 while handleRunEvaluation of the mounted runner is in flight
    wzOrphanRuns,   \* number of runs in flight whose runner was unmounted
    wzLateResult,   \* whether such a run has delivered its results
    \* AnnotationGenerator (AnnotationGenerator.tsx, part_003)
    agIsGenerating, \* isGenerating
    agProgress,     \* progress, 0..100
    agTimers,       \* interval timers that have been set and not cleared
    agPc,           \* "idle" | "awaiting": handleGenerateAnnotations at its await
    agError,        \* whether error is set
    \* saved runs (savedRunsService.ts)
    srStorage,      \* localStorage[STORAGE_KEY]: <<>> or <<sequence of runs>>
    srClock,        \* Date.now()
    srSaved,        \* every run a save has stored, in the order of the saves
    srDeleted,      \* positions in srSaved of the runs a delete has removed
    srLastOp        \* the last save or delete, and its run id

scVars == <<scRequest, scResponse>>
hVars == <<hPc, hQuestions, hIdx, hResults, hConnected, hOutcomes, hConnectOk, hLost, hResponse,
          hFailedPhase>>
ctxVars == <<selectedDatabase, annotations, customPrompt, evaluationResults, currentStep,
            showDatabaseSelector>>
runVars == <<isRunning, progress, currentPhase, results, error, runPc, runI>>
svcVars == <<svcPc, svcNext, svcLog, svcResult, verdictLog, svcDraws>>
annVars == <<annPc, annRequest, annConfig, annSchemaFetches, annSchemaErrors, annTables,
            annSample, annModel, annCaught, annEdgeResponse, annOutcome>>
iaVars == <<interactiveResult, answers, currentTableIndex, completedAnswers,
           generatedAnnotations, rcInput, rcResult>>
cqVars == <<cqInput, cqResult>>
stVars == <<stInput, stOutputs>>
smVars == <<smRequest, smData>>
wzVars == <<wzState, wzSelector, wzGenerated, wzResults, wzMountedRun, wzOrphanRuns,
           wzLateResult>>
agVars == <<agIsGenerating, agProgress, agTimers, agPc, agError>>
srVars == <<srStorage, srClock, srSaved, srDeleted, srLastOp>>
vars == <<scVars, hVars, ctxVars, runVars, svcVars, annVars, iaVars, cqVars, stVars, smVars, wzVars, agVars, srVars>>

\* JavaScript null / undefined: an optional value is a sequence of length 0 or 1.
None == <<>>
Some(x) == <<x>>
IsSome(o) == Len(o) = 1
Get(o) == o[1]

Max(a, b) == IF a >= b THEN a ELSE b
Min(a, b) == IF a <= b THEN a ELSE b

\* Sequences over S of length at most n.
SeqUpTo(S, n) == UNION {[1..k -> S] : k \in 0..n}

(***************************************************************************)
(* Part 1: run-spider-evaluation (part_008)                                *)
(***************************************************************************)

\* Largest result set, in rows, that the model enumerates.
MaxRows == 2

\* A result row is a JSON object: its fields in insertion order.
Field(k, v) == [k |-> k, v |-> v]
Rows ==
    { <<Field("a", 1)>>,
      <<Field("a", 2)>>,
      <<Field("a", 1), Field("b", 2)>>,
      <<Field("b", 2), Field("a", 1)>> }

ResultSets == SeqUpTo(Rows, MaxRows)

\* JSON.stringify of a row object: {"k":v,...} in insertion order.
RECURSIVE stringifyFields(_)
stringifyFields(fs) ==
    IF Len(fs) = 0 THEN ""
    ELSE "\"" \o Head(fs).k \o "\":" \o ToString(Head(fs).v)
         \o (IF Len(fs) > 1 THEN "," ELSE "")
         \o stringifyFields(Tail(fs))

JSONstringify(row) == "{" \o stringifyFields(row) \o "}"

\* The for-loop of compareResults from row i on: matches and differences.  Rows are
\* numbered from 1 here, so the message's "i + 1" of the 0-based loop is i.
RECURSIVE compareRows(_, _, _)
compareRows(actualData, expectedData, i) ==
    IF i > Len(actualData) THEN [matches |-> 0, differences |-> <<>>]
    ELSE LET rest == compareRows(actualData, expectedData, i + 1)
             actualRow == JSONstringify(actualData[i])
             expectedRow == JSONstringify(expectedData[i])
         IN IF actualRow = expectedRow
            THEN [rest EXCEPT !.matches = @ + 1]
            ELSE [rest EXCEPT !.differences =
                     << "Row " \o ToString(i) \o ": expected " \o expectedRow
                        \o ", got " \o actualRow >> \o @]

\* Math.round(score * 100) / 100, kept in hundredths of a percent.
roundedScore(matches, actualRows) ==
    IF actualRows > 0
    THEN ((matches * 10000 * 2) + actualRows) \div (2 * actualRows)
    ELSE 0

\* differences.slice(0, 5)
DifferencesLimit == 5
slice(s, n) == SubSeq(s, 1, Min(Len(s), n))

\* C3 mutant: the scorer without the "actualRows > 0" guard on exactMatch.
compareResultsNoEmptyGuard(actualData, expectedData) ==
    IF ~IsSome(actualData) \/ ~IsSome(expectedData)
    THEN [score |-> 0, matches |-> 0,
          differences |-> <<"Missing data for comparison">>, exactMatch |-> FALSE]
    ELSE LET a == Get(actualData)
             e == Get(expectedData)
         IN IF Len(a) # Len(e)
            THEN [score |-> 0, matches |-> 0,
                  differences |-> << "Row count mismatch: expected " \o ToString(Len(e))
                                     \o ", got " \o ToString(Len(a)) >>,
                  exactMatch |-> FALSE]
            ELSE LET r == compareRows(a, e, 1)
                 IN [score |-> roundedScore(r.matches, Len(a)),
                     matches |-> r.matches,
                     differences |-> slice(r.differences, DifferencesLimit),
                     exactMatch |-> (r.matches = Len(a))]

\* C4 mutant: the scorer comparing each actual row against any expected row
\* (order-insensitive), reporting no difference for a reordered result.
compareResultsUnordered(actualData, expectedData) ==
    IF ~IsSome(actualData) \/ ~IsSome(expectedData)
    THEN [score |-> 0, matches |-> 0,
          differences |-> <<"Missing data for comparison">>, exactMatch |-> FALSE]
    ELSE LET a == Get(actualData)
             e == Get(expectedData)
         IN IF Len(a) # Len(e)
            THEN [score |-> 0, matches |-> 0,
                  differences |-> << "Row count mismatch: expected " \o ToString(Len(e))
                                     \o ", got " \o ToString(Len(a)) >>,
                  exactMatch |-> FALSE]
            ELSE LET hit == {i \in 1..Len(a) :
                               \E j \in 1..Len(e) :
                                  JSONstringify(a[i]) = JSONstringify(e[j])}
                     m == Cardinality(hit)
                 IN [score |-> roundedScore(m, Len(a)),
                     matches |-> m,
                     differences |-> <<>>,
                     exactMatch |-> (m = Len(a) /\ Len(a) > 0)]

\* compareResults(actualData, expectedData)
compareResults(actualData, expectedData) ==
    IF ~IsSome(actualData) \/ ~IsSome(expectedData)
    THEN [score |-> 0, matches |-> 0,
          differences |-> <<"Missing data for comparison">>, exactMatch |-> FALSE]
    ELSE LET a == Get(actualData)
             e == Get(expectedData)
             actualRows == Len(a)
             expectedRows == Len(e)
         IN IF actualRows # expectedRows
            THEN [score |-> 0, matches |-> 0,
                  differences |-> << "Row count mismatch: expected " \o ToString(expectedRows)
                                     \o ", got " \o ToString(actualRows) >>,
                  exactMatch |-> FALSE]
            ELSE LET r == compareRows(a, e, 1)
                 IN [score |-> roundedScore(r.matches, actualRows),
                     matches |-> r.matches,
                     differences |-> slice(r.differences, DifferencesLimit),
                     exactMatch |-> (r.matches = actualRows /\ actualRows > 0)]

EvaluationTypes == {"execution", "accuracy", "both"}

\* What executeSpiderQuery can return: a failure, or success with result.data || [].
ExecutionResults ==
    {[success |-> FALSE, data |-> None, error |-> Some("Query execution failed")]}
    \cup {[success |-> TRUE, data |-> Some(d), error |-> None] : d \in ResultSets}

\* Request bodies together with the outcomes of the external calls made for them.
ScorerRequests ==
    [ evaluationType : EvaluationTypes,
      expectedResult : {None} \cup {Some(d) : d \in ResultSets},
      credentials : BOOLEAN,          \* SNOWFLAKE_* environment variables set
      authSuccess : BOOLEAN,          \* authenticateSnowflake(...).success
      executionResult : ExecutionResults ]

\* The "evaluation" object the handler builds (lines 59-97).
scorerEvaluation(req) ==
    LET ex == req.executionResult
        withExecution == req.evaluationType \in {"execution", "both"}
        withAccuracy == req.evaluationType \in {"accuracy", "both"}
    IN [ execution |->
            IF withExecution
            THEN Some([success |-> ex.success,
                       rowCount |-> IF IsSome(ex.data) THEN Len(Get(ex.data)) ELSE 0,
                       error |-> ex.error])
            ELSE None,
         accuracy |->
            IF withAccuracy
            THEN IF IsSome(req.expectedResult) /\ ex.success
                 THEN Some(compareResults(ex.data, req.expectedResult))
                 ELSE Some([score |-> 0, matches |-> 0,
                            differences |->
                               <<"No expected result provided or query failed">>,
                            exactMatch |-> FALSE])
            ELSE None ]

ScorerNoEvaluation == [execution |-> None, accuracy |-> None]

\* serve(async (req) => ...): one request, from req.json() to the Response.
ServeRequest ==
    /\ scRequest = None
    /\ \E req \in ScorerRequests :
         /\ scRequest' = Some(req)
         /\ scResponse' =
              IF ~req.credentials
              THEN Some([status |-> 400, error |-> "Snowflake credentials not configured",
                         evaluation |-> ScorerNoEvaluation])
              ELSE IF ~req.authSuccess
              THEN Some([status |-> 400, error |-> "Snowflake authentication failed",
                         evaluation |-> ScorerNoEvaluation])
              ELSE Some([status |-> 200, error |-> "",
                         evaluation |-> scorerEvaluation(req)])
    /\ UNCHANGED <<hVars, ctxVars, runVars, svcVars, annVars, iaVars, cqVars, stVars, smVars, wzVars, agVars, srVars>>

ScorerInit ==
    /\ scRequest = None
    /\ scResponse = None

(***************************************************************************)
(* Part 2: pages/api/ spider-evaluation.ts                                 *)
(***************************************************************************)

\* Longest benchmark question list the model enumerates.
MaxQuestions == 3

QuestionTexts == {"q1", "q2"}

\* Outcome of model.generateContent for one question.
GenerationOutcomes == {"ok", "throw"}

\* Outcome of connection.execute for the generated SQL: the complete callback
\* gets rows, gets an error, or execute itself throws inside the promise executor.
ExecutionOutcomes == {"rows0", "rows2", "err", "throw"}

\* With the connection gone no statement can return rows.
executionPossible(exec, connected) == connected \/ exec \in {"err", "throw"}

rowsLength(exec) == IF exec = "rows2" THEN 2 ELSE 0

\* C6 mutant: the inner catch swallows the error without recording the question.
iterationResultsDropFailed(q, gen, exec) ==
    IF gen = "throw" \/ exec = "throw"
    THEN <<>>
    ELSE << [question |-> q,
             generatedSQL |-> Some("sql"),
             executionSuccess |-> exec # "err",
             error |-> IF exec = "err" THEN Some("execution error") ELSE None,
             resultCount |-> rowsLength(exec)] >>

\* C9 mutant: the complete callback ignores err and always resolves success.
iterationResultsErrIgnored(q, gen, exec) ==
    IF gen = "throw" \/ exec = "throw"
    THEN << [question |-> q, generatedSQL |-> None, executionSuccess |-> FALSE,
             error |-> Some(IF gen = "throw" THEN "generation failed"
                                              ELSE "execution threw"),
             resultCount |-> 0] >>
    ELSE << [question |-> q,
             generatedSQL |-> Some("sql"),
             executionSuccess |-> TRUE,
             error |-> None,
             resultCount |-> rowsLength(exec)] >>

\* What one iteration of the for-loop pushes onto results (lines 49-103):
\* the try body's push, or the catch block's push when anything in it threw.
iterationResults(q, gen, exec) ==
    IF gen = "throw" \/ exec = "throw"
    THEN << [question |-> q, generatedSQL |-> None, executionSuccess |-> FALSE,
             error |-> Some(IF gen = "throw" THEN "generation failed"
                                              ELSE "execution threw"),
             resultCount |-> 0] >>
    ELSE << [question |-> q,
             generatedSQL |-> Some("sql"),
             executionSuccess |-> exec # "err",
             error |-> IF exec = "err" THEN Some("execution error") ELSE None,
             resultCount |-> rowsLength(exec)] >>

\* A JavaScript number produced by n / d.
Divide(n, d) ==
    IF d = 0
    THEN [kind |-> IF n = 0 THEN "NaN" ELSE "Infinity", num |-> 0, den |-> 1]
    ELSE [kind |-> "number", num |-> n, den |-> d]

successCount(rs) == Cardinality({i \in 1..Len(rs) : rs[i].executionSuccess})

\* results.filter(r => r.executionSuccess).length / results.length
executionRate(rs) == Divide(successCount(rs), Len(rs))

\* The two awaited steps of lines 25-43: connection.connect, then
\* connection.execute("USE DATABASE ...").
ConnectPhases == {"connect", "use database"}

\* err.message of the driver when one of the two steps rejects.
DriverMessages == {"Network error", "Incorrect username or password was specified."}

\* Lines 121-128: the body of the 500 answer of the outer catch.
failureResponse(message) ==
    [status |-> 500, error |-> "Evaluation failed", details |-> message,
     totalQuestions |-> 0, executionSuccessRate |-> Divide(0, 1), results |-> <<>>]

\* Lines 18-45: the request arrives, the connection is opened and the database
\* selected; a rejection of either promise lands in the outer catch (500), whose
\* body carries no evaluation (the last three fields of failureResponse are
\* placeholders of the shape of the 200 answer).
HandlerStart ==
    /\ hPc = "idle"
    /\ \E qs \in SeqUpTo(QuestionTexts, MaxQuestions), ok \in BOOLEAN :
         /\ hQuestions' = qs
         /\ hConnectOk' = ok
         /\ hConnected' = ok
         /\ IF ok
            THEN /\ hPc' = "loop"
                 /\ hResponse' = None
                 /\ hFailedPhase' = None
            ELSE /\ hPc' = "done"
                 /\ \E phase \in ConnectPhases, message \in DriverMessages :
                      /\ hFailedPhase' = Some(phase)
                      /\ hResponse' = Some(failureResponse(message))
    /\ hIdx' = 0
    /\ hResults' = <<>>
    /\ hOutcomes' = <<>>
    /\ hLost' = None
    /\ UNCHANGED <<scVars, ctxVars, runVars, svcVars, annVars, iaVars, cqVars, stVars, smVars, wzVars, agVars, srVars>>

\* Lines 48-104: one iteration of "for (const question of questions)".
HandlerQuestion ==
    /\ hPc = "loop"
    /\ hIdx < Len(hQuestions)
    /\ \E gen \in GenerationOutcomes, exec \in ExecutionOutcomes :
         /\ executionPossible(exec, hConnected)
         /\ hResults' = hResults \o iterationResults(hQuestions[hIdx + 1], gen, exec)
         /\ hOutcomes' = Append(hOutcomes, [gen |-> gen, exec |-> exec])
    /\ hIdx' = hIdx + 1
    /\ UNCHANGED <<hPc, hQuestions, hConnected, hConnectOk, hLost, hResponse, hFailedPhase>>
    /\ UNCHANGED <<scVars, ctxVars, runVars, svcVars, annVars, iaVars, cqVars, stVars, smVars, wzVars, agVars, srVars>>

\* The data store drops the connection while the loop is running.
ConnectionLost ==
    /\ hPc = "loop"
    /\ hConnected
    /\ hConnected' = FALSE
    /\ hLost' = Some(hResults)
    /\ UNCHANGED <<hPc, hQuestions, hIdx, hResults, hOutcomes, hConnectOk, hResponse, hFailedPhase>>
    /\ UNCHANGED <<scVars, ctxVars, runVars, svcVars, annVars, iaVars, cqVars, stVars, smVars, wzVars, agVars, srVars>>

\* Lines 106-119: destroy the connection, compute the metrics, answer 200.
HandlerFinish ==
    /\ hPc = "loop"
    /\ hIdx = Len(hQuestions)
    /\ hPc' = "done"
    /\ hConnected' = FALSE
    /\ hResponse' = Some([status |-> 200,
                          totalQuestions |-> Len(hResults),
                          executionSuccessRate |-> executionRate(hResults),
                          results |-> hResults])
    /\ UNCHANGED <<hQuestions, hIdx, hResults, hOutcomes, hConnectOk, hLost, hFailedPhase>>
    /\ UNCHANGED <<scVars, ctxVars, runVars, svcVars, annVars, iaVars, cqVars, stVars, smVars, wzVars, agVars, srVars>>

\* Lines 61 and 75-86: the promise of model.generateContent or of
\* connection.execute never settles.  The handler sets no timer around either
\* await, so the iteration never resumes.
ExternalCallHangs ==
    /\ hPc = "loop"
    /\ hIdx < Len(hQuestions)
    /\ hPc' = "hung"
    /\ UNCHANGED <<hQuestions, hIdx, hResults, hConnected, hOutcomes, hConnectOk, hLost,
                   hResponse, hFailedPhase>>
    /\ UNCHANGED <<scVars, ctxVars, runVars, svcVars, annVars, iaVars, cqVars, stVars, smVars, wzVars, agVars, srVars>>

HandlerInit ==
    /\ hPc = "idle"
    /\ hQuestions = <<>>
    /\ hIdx = 0
    /\ hResults = <<>>
    /\ hConnected = FALSE
    /\ hOutcomes = <<>>
    /\ hConnectOk = FALSE
    /\ hLost = None
    /\ hResponse = None
    /\ hFailedPhase = None

(***************************************************************************)
(* Part 3: evaluationService.ts and SpiderEvaluationRunner (part_000)      *)
(***************************************************************************)

\* Math.random() is drawn from {0, 1/RandDen, ..., (RandDen-1)/RandDen}; a draw
\* is the numerator k.  Accuracies are kept in units of 1/RandDen percent, so
\* 100 percent is 100 * RandDen and every value below is an exact integer.
RandDen == 3
Randoms == 0..(RandDen - 1)
Percent(p) == p * RandDen

Variants == <<"raw", "hypothesis", "annotated">>

\* A representative of each difficulty of DatabaseSelector's list.
Databases ==
    { [id |-> "academic", name |-> "Academic", difficulty |-> "Easy"],
      [id |-> "car_1", name |-> "Car Dealership", difficulty |-> "Medium"],
      [id |-> "club_1", name |-> "Club Management", difficulty |-> "Hard"] }

\* calculateAccuracy(difficulty), with its one relevant Math.random() draw r.
calculateAccuracy(difficulty, r) ==
    LET base == IF difficulty = "Easy" THEN Percent(75) + r * 20
                ELSE IF difficulty = "Medium" THEN Percent(45) + r * 25
                ELSE IF difficulty = "Hard" THEN Percent(25) + r * 20
                ELSE Percent(50)
    IN Min(Percent(95), base)

\* getTestCaseCount(difficulty), with its one relevant Math.random() draw r.
getTestCaseCount(difficulty, r) ==
    IF difficulty = "Easy" THEN 50 + ((r * 30) \div RandDen)
    ELSE IF difficulty = "Medium" THEN 30 + ((r * 20) \div RandDen)
    ELSE IF difficulty = "Hard" THEN 15 + ((r * 15) \div RandDen)
    ELSE 40

\* Math.round((accuracy / 100) * totalQueries), accuracy in 1/RandDen percent.
roundCorrect(accuracy, totalQueries) ==
    ((2 * accuracy * totalQueries) + Percent(100)) \div (2 * Percent(100))

\* The draws one call of runSpiderEvaluation consumes, in order of use.
Draws == [total : Randoms, base : Randoms, raw : Randoms, hyp : Randoms,
          ann : Randoms, reportTotal : Randoms]

\* A generateSchemaResults whose three variants all get the raw accuracy.
generateSchemaResultsNoGain(difficulty, d) ==
    LET totalQueries == getTestCaseCount(difficulty, d.total)
        rawAccuracy == calculateAccuracy(difficulty, d.base) - (Percent(10) + d.raw * 15)
        accuracy == Max(Percent(10), Min(rawAccuracy, Percent(95)))
        entry(type) == [schemaType |-> type, accuracy |-> accuracy,
                        correctQueries |-> roundCorrect(accuracy, totalQueries)]
    IN << entry("raw"), entry("hypothesis"), entry("annotated") >>

\* generateSchemaResults(difficulty)
generateSchemaResults(difficulty, d) ==
    LET totalQueries == getTestCaseCount(difficulty, d.total)
        rawAccuracy == calculateAccuracy(difficulty, d.base) - (Percent(10) + d.raw * 15)
        hypothesisAccuracy == rawAccuracy + (Percent(8) + d.hyp * 12)
        annotatedAccuracy == rawAccuracy + (Percent(15) + d.ann * 20)
        entry(type, floor, acc) ==
            [schemaType |-> type,
             accuracy |-> Max(Percent(floor), Min(acc, Percent(95))),
             correctQueries |->
                 roundCorrect(Max(Percent(floor), Min(acc, Percent(95))), totalQueries)]
    IN << entry("raw", 10, rawAccuracy),
          entry("hypothesis", 15, hypothesisAccuracy),
          entry("annotated", 20, annotatedAccuracy) >>

Verdict(result, correct, err) ==
    [result |-> result, is_correct |-> correct, error_message |-> err]

QueryResult(query, expected, raw, hyp, ann, level, best) ==
    [query |-> query, expected_result |-> expected,
     schemaResults |-> [raw |-> raw, hypothesis |-> hyp, annotated |-> ann],
     difficulty_level |-> level, bestPerformingSchema |-> Some(best)]

\* generateRealisticSQLQueries(database): the literals of lines 125-207.
generateRealisticSQLQueries(database) ==
    IF database.id = "car_1"
    THEN << QueryResult("inventory by make and model",
               "List of available vehicles grouped by make and model with counts",
               Verdict("Error: Ambiguous column 'status'", FALSE,
                       Some("Column 'status' not clear in raw schema")),
               Verdict("List of available vehicles grouped by make and model with counts",
                       TRUE, None),
               Verdict("List of available vehicles grouped by make and model with counts",
                       TRUE, None),
               "Easy", "hypothesis"),
            QueryResult("customer sales 2024",
               "Customer sales information for 2024",
               Verdict("Error: JOIN relationship unclear", FALSE,
                       Some("Foreign key relationships not defined")),
               Verdict("Customer sales information for 2024", TRUE, None),
               Verdict("Customer sales information for 2024", TRUE, None),
               "Medium", "annotated"),
            QueryResult("dealer performance",
               "Dealer performance with average sale price and total sales count",
               Verdict("Error: Column 'dealer_name' not found", FALSE,
                       Some("Incorrect column name assumption")),
               Verdict("Error: Complex JOIN not inferred correctly", FALSE,
                       Some("Multi-table relationships too complex for hypothesis")),
               Verdict("Dealer performance with average sale price and total sales count",
                       TRUE, None),
               "Hard", "annotated"),
            QueryResult("average monthly payment 2020+",
               "Average monthly payment for vehicles 2020 and newer",
               Verdict("Error: Table 'financing' not recognized", FALSE,
                       Some("Table relationships not clear")),
               Verdict("156.23", FALSE, Some("Incorrect business logic assumption")),
               Verdict("Average monthly payment for vehicles 2020 and newer", TRUE, None),
               "Medium", "annotated"),
            QueryResult("vehicles by make",
               "Count of vehicles by manufacturer",
               Verdict("Count of vehicles by manufacturer", TRUE, None),
               Verdict("Count of vehicles by manufacturer", TRUE, None),
               Verdict("Count of vehicles by manufacturer", TRUE, None),
               "Easy", "raw") >>
    ELSE << QueryResult("students by major",
               "Student count by major",
               Verdict("Student count by major", TRUE, None),
               Verdict("Student count by major", TRUE, None),
               Verdict("Student count by major", TRUE, None),
               "Easy", "raw"),
            QueryResult("average gpa recent",
               "Average GPA for recent students",
               Verdict("Error: Date format unclear", FALSE,
                       Some("Date column type ambiguous")),
               Verdict("Average GPA for recent students", TRUE, None),
               Verdict("Average GPA for recent students", TRUE, None),
               "Medium", "annotated") >>

\* Order in which the verdict objects come into existence: the object literals
\* are evaluated record by record, and inside a record raw, hypothesis, annotated.
RECURSIVE literalOrder(_, _)
literalOrder(n, i) ==
    IF i > n THEN <<>>
    ELSE << [q |-> i, variant |-> "raw"],
            [q |-> i, variant |-> "hypothesis"],
            [q |-> i, variant |-> "annotated"] >> \o literalOrder(n, i + 1)

\* The EvaluationResults object of lines 63-113 (executionTime, a further random
\* draw no other field depends on, and the constant baselineCalculation are left out).
evaluationReport(database, d) ==
    [ schemaResults |-> generateSchemaResults(database.difficulty, d),
      totalQueries |-> getTestCaseCount(database.difficulty, d.reportTotal),
      difficulty |-> database.difficulty,
      database |-> database.name,
      sqlQueries |-> generateRealisticSQLQueries(database) ]

\* part_000:296-311, the "Enhancement Impact" panel: the difference a line shows,
\* results.schemaResults[i].accuracy - results.schemaResults[0].accuracy
\* (i counted from 1 here), in units of 1/RandDen percent.
improvementOverRaw(schemaResults, i) == schemaResults[i].accuracy - schemaResults[1].accuracy

\* Number.prototype.toFixed(1) of n/RandDen: the magnitude is rounded to tenths,
\* half up, and a negative number keeps its sign.
toFixed1(n) ==
    LET magnitude == IF n < 0 THEN 0 - n ELSE n
        tenths == (2 * 10 * magnitude + RandDen) \div (2 * RandDen)
    IN (IF n < 0 THEN "-" ELSE "") \o ToString(tenths \div 10) \o "." \o ToString(tenths % 10)

\* The text of a line of the panel: '+' before a positive difference only.
improvementText(schemaResults, i) ==
    LET delta == improvementOverRaw(schemaResults, i)
    IN (IF delta > 0 THEN "+" ELSE "") \o toFixed1(delta) \o "%"

\* SavedRunsViewer.tsx:44-46: schemaResults.reduce((best, current) =>
\* current.accuracy > best.accuracy ? current : best), by index.
RECURSIVE bestSchemaIndex(_, _, _)
bestSchemaIndex(schemaResults, best, i) ==
    IF i > Len(schemaResults) THEN best
    ELSE bestSchemaIndex(schemaResults,
                         IF schemaResults[i].accuracy > schemaResults[best].accuracy
                         THEN i ELSE best,
                         i + 1)

\* SavedRunsViewer.tsx:55-59: the annotationImpact of a saved run.
annotationImpact(report) ==
    LET bestSchema == report.schemaResults[bestSchemaIndex(report.schemaResults, 1, 2)]
    IN [withoutAnnotations |-> report.schemaResults[1].accuracy,
        withAnnotations |-> bestSchema.accuracy,
        improvement |-> bestSchema.accuracy - report.schemaResults[1].accuracy]

\* simulateEvaluationSteps: the phases array, by name.
SvcPhases ==
    << "snowflake_connection", "test_case_loading", "raw_schema_evaluation",
       "hypothesis_schema_evaluation", "annotated_schema_evaluation",
       "result_calculation" >>

\* SpiderEvaluationRunner: the phases array shown to the user.
RunnerPhases ==
    << "Connecting to Snowflake database...",
       "Loading Spider test cases...",
       "Running evaluation on raw schema (no annotations)...",
       "Running evaluation on LLM-enhanced schema...",
       "Running evaluation on fully annotated schema...",
       "Calculating comparative results..." >>

\* (i / phases.length) * 100 as an exact fraction.
Fraction(n, d) == [num |-> n, den |-> d]

\* Index.tsx renders SpiderEvaluationRunner only at step 4 with the selector closed;
\* React drops state updates of an unmounted component.
runnerMounted == ~showDatabaseSelector /\ currentStep = 4

\* hasValidInputs: what enables the "Run Spider Benchmark" button.
hasValidInputs ==
    /\ IsSome(selectedDatabase)
    /\ annotations # {}
    /\ customPrompt # ""

\* handleRunEvaluation, lines 65-83: from the click to the first await.  The
\* button is rendered while there is no result and no run (line 167) and is
\* disabled unless hasValidInputs (line 172).
RunnerStart ==
    /\ runnerMounted
    /\ runPc = "idle"
    /\ results = None /\ ~isRunning
    /\ hasValidInputs
    /\ IF ~IsSome(selectedDatabase) \/ annotations = {}
       THEN /\ error' = Some("Missing database selection or annotations")
            /\ UNCHANGED <<isRunning, progress, currentPhase, runPc, runI>>
       ELSE /\ isRunning' = TRUE
            /\ progress' = Fraction(0, Len(RunnerPhases))
            /\ error' = None
            /\ currentPhase' = RunnerPhases[1]
            /\ runPc' = "phases"
            /\ runI' = 0
    /\ UNCHANGED results
    /\ UNCHANGED <<scVars, hVars, ctxVars, svcVars, annVars, iaVars, cqVars, stVars, smVars, wzVars, agVars, srVars>>

\* The loop of lines 78-84 reporting the fraction reached at the end of the
\* phase it starts, (i + 1) / phases.length.
RunnerPhaseOneAhead ==
    /\ runPc = "phases"
    /\ runI + 1 < Len(RunnerPhases)
    /\ runI' = runI + 1
    /\ IF runnerMounted
       THEN /\ currentPhase' = RunnerPhases[runI + 2]
            /\ progress' = Fraction((runI + 2) * 100, Len(RunnerPhases))
       ELSE UNCHANGED <<currentPhase, progress>>
    /\ UNCHANGED <<isRunning, results, error, runPc>>
    /\ UNCHANGED <<scVars, hVars, ctxVars, svcVars, annVars, iaVars, cqVars, stVars, smVars, wzVars, agVars, srVars>>

\* Lines 78-84: the 1500 ms timer of iteration i fires and iteration i+1 starts.
RunnerPhase ==
    /\ runPc = "phases"
    /\ runI + 1 < Len(RunnerPhases)
    /\ runI' = runI + 1
    /\ IF runnerMounted
       THEN /\ currentPhase' = RunnerPhases[runI + 2]
            /\ progress' = Fraction((runI + 1) * 100, Len(RunnerPhases))
       ELSE UNCHANGED <<currentPhase, progress>>
    /\ UNCHANGED <<isRunning, results, error, runPc>>
    /\ UNCHANGED <<scVars, hVars, ctxVars, svcVars, annVars, iaVars, cqVars, stVars, smVars, wzVars, agVars, srVars>>

\* Lines 84-91 and evaluationService 55-60, 224-226: the last timer fires, the loop
\* ends, runSpiderEvaluation is called and runs up to the sleep of its first phase.
RunnerCallService ==
    /\ runPc = "phases"
    /\ runI + 1 = Len(RunnerPhases)
    /\ runI' = runI + 1
    /\ runPc' = "await"
    /\ svcPc' = "phases"
    /\ svcLog' = <<SvcPhases[1]>>
    /\ svcNext' = 2
    /\ svcResult' = None
    /\ verdictLog' = <<>>
    /\ svcDraws' = None
    /\ UNCHANGED <<isRunning, progress, currentPhase, results, error>>
    /\ UNCHANGED <<scVars, hVars, ctxVars, annVars, iaVars, cqVars, stVars, smVars, wzVars, agVars, srVars>>

\* C7 mutant: the loop advances two entries at a time, skipping a phase.
SvcPhaseSkipping ==
    /\ svcPc = "phases"
    /\ svcNext <= Len(SvcPhases)
    /\ svcLog' = Append(svcLog, SvcPhases[Min(svcNext + 1, Len(SvcPhases))])
    /\ svcNext' = Min(svcNext + 2, Len(SvcPhases) + 1)
    /\ UNCHANGED <<svcPc, svcResult, verdictLog, svcDraws>>
    /\ UNCHANGED <<scVars, hVars, ctxVars, runVars, annVars, iaVars, cqVars, stVars, smVars, wzVars, agVars, srVars>>

\* simulateEvaluationSteps, lines 224-227: the timer of the running phase fires
\* and the next phase is logged and started.
SvcPhase ==
    /\ svcPc = "phases"
    /\ svcNext <= Len(SvcPhases)
    /\ svcLog' = Append(svcLog, SvcPhases[svcNext])
    /\ svcNext' = svcNext + 1
    /\ UNCHANGED <<svcPc, svcResult, verdictLog, svcDraws>>
    /\ UNCHANGED <<scVars, hVars, ctxVars, runVars, annVars, iaVars, cqVars, stVars, smVars, wzVars, agVars, srVars>>

\* The timer of the last phase fires: runSpiderEvaluation builds and returns its
\* results (lines 63-113) and handleRunEvaluation resumes (part_000 lines 93-101).
RunnerComplete ==
    /\ svcPc = "phases"
    /\ svcNext = Len(SvcPhases) + 1
    /\ runPc = "await"
    /\ \E d \in Draws :
         LET report == evaluationReport(Get(selectedDatabase), d)
         IN /\ svcResult' = Some(report)
            /\ svcDraws' = Some(d)
            /\ verdictLog' = literalOrder(Len(report.sqlQueries), 1)
            /\ evaluationResults' = Some(report)
            /\ IF runnerMounted
               THEN /\ progress' = Fraction(100, 1)
                    /\ results' = Some(report)
                    /\ isRunning' = FALSE
               ELSE UNCHANGED <<progress, results, isRunning>>
    /\ svcPc' = "idle"
    /\ runPc' = "idle"
    /\ UNCHANGED <<svcNext, svcLog, currentPhase, error, runI>>
    /\ UNCHANGED <<selectedDatabase, annotations, customPrompt, currentStep,
                   showDatabaseSelector>>
    /\ UNCHANGED <<scVars, hVars, annVars, iaVars, cqVars, stVars, smVars, wzVars, agVars, srVars>>

\* Index.tsx line 40: HeroSection's "start evaluation" opens the database selector,
\* which replaces the runner on the page (line 49).  It is the one way the page
\* offers to leave a run that is in progress.
OpenDatabaseSelector ==
    /\ ~showDatabaseSelector
    /\ showDatabaseSelector' = TRUE
    /\ UNCHANGED <<selectedDatabase, annotations, customPrompt, evaluationResults,
                   currentStep>>
    /\ UNCHANGED <<scVars, hVars, runVars, svcVars, annVars, iaVars, cqVars, stVars, smVars, wzVars, agVars, srVars>>

EvalInit ==
    /\ selectedDatabase \in {Some(db) : db \in Databases}
    /\ annotations = {"t1"}
    /\ customPrompt = "prompt"
    /\ evaluationResults = None
    /\ currentStep = 4
    /\ showDatabaseSelector = FALSE
    /\ isRunning = FALSE
    /\ progress = Fraction(0, 1)
    /\ currentPhase = ""
    /\ results = None
    /\ error = None
    /\ runPc = "idle"
    /\ runI = 0
    /\ svcPc = "idle"
    /\ svcNext = 1
    /\ svcLog = <<>>
    /\ svcResult = None
    /\ verdictLog = <<>>
    /\ svcDraws = None

(***************************************************************************)
(* Part 4: annotation generation - annotationService.ts (direct model      *)
(* call, lines 42-325; edge-function client, lines 377-421) and the        *)
(* generate-annotations edge function (part_007)                           *)
(***************************************************************************)

Column(name, type, nullable) == [name |-> name, type |-> type, nullable |-> nullable]

\* generateRealisticSchema of annotationService.ts: only "academic" is listed and
\* every other id falls back to it.
generateRealisticSchema(database) ==
    << [name |-> "students",
        columns |-> << Column("student_id", "NUMBER(10)", FALSE),
                       Column("first_name", "VARCHAR(50)", FALSE),
                       Column("last_name", "VARCHAR(50)", FALSE),
                       Column("email", "VARCHAR(100)", TRUE),
                       Column("enrollment_date", "DATE", FALSE),
                       Column("major_id", "NUMBER(10)", TRUE) >>],
       [name |-> "courses",
        columns |-> << Column("course_id", "NUMBER(10)", FALSE),
                       Column("course_code", "VARCHAR(10)", FALSE),
                       Column("title", "VARCHAR(200)", FALSE),
                       Column("credits", "NUMBER(2)", FALSE),
                       Column("department_id", "NUMBER(10)", FALSE) >>] >>

\* generateRealisticSchema of part_007: "car-dealership" and "academic" are listed;
\* no selectable database has the first id, so the fallback applies.
edgeRealisticSchema(database) ==
    IF database.id = "car-dealership"
    THEN << [name |-> "vehicles",
             columns |-> << Column("vehicle_id", "NUMBER(10)", FALSE),
                            Column("make", "VARCHAR(50)", FALSE),
                            Column("model", "VARCHAR(50)", FALSE),
                            Column("year", "NUMBER(4)", FALSE),
                            Column("price", "NUMBER(10,2)", FALSE),
                            Column("status", "VARCHAR(20)", FALSE) >>],
            [name |-> "customers",
             columns |-> << Column("customer_id", "NUMBER(10)", FALSE),
                            Column("first_name", "VARCHAR(50)", FALSE),
                            Column("last_name", "VARCHAR(50)", FALSE),
                            Column("email", "VARCHAR(100)", TRUE),
                            Column("phone", "VARCHAR(20)", TRUE) >>] >>
    ELSE << [name |-> "students",
             columns |-> << Column("student_id", "NUMBER(10)", FALSE),
                            Column("first_name", "VARCHAR(50)", FALSE),
                            Column("last_name", "VARCHAR(50)", FALSE),
                            Column("email", "VARCHAR(100)", TRUE),
                            Column("enrollment_date", "DATE", FALSE) >>] >>

\* String.prototype.includes over the column names and types of the schemas of
\* this module: the pairs <<text, needle>> for which text.includes(needle) is
\* true, for every needle the source looks for.
Includes ==
    { <<"course_id", "id">>, <<"customer_id", "id">>, <<"dealer_id", "id">>,
      <<"department_id", "id">>, <<"financing_id", "id">>, <<"major_id", "id">>,
      <<"manager_id", "id">>, <<"sale_id", "id">>, <<"salesperson_id", "id">>,
      <<"service_id", "id">>, <<"student_id", "id">>, <<"vehicle_id", "id">>,
      <<"dealer_name", "name">>, <<"first_name", "name">>, <<"last_name", "name">>,
      <<"email", "email">>, <<"enrollment_date", "date">>, <<"hire_date", "date">>,
      <<"sale_date", "date">>, <<"service_date", "date">>, <<"make", "make">>,
      <<"model", "model">>, <<"price", "price">>, <<"sale_price", "price">>,
      <<"year", "year">>, <<"status", "status">>, <<"VARCHAR(10)", "VARCHAR">>,
      <<"VARCHAR(100)", "VARCHAR">>, <<"VARCHAR(20)", "VARCHAR">>,
      <<"VARCHAR(200)", "VARCHAR">>, <<"VARCHAR(30)", "VARCHAR">>,
      <<"VARCHAR(50)", "VARCHAR">>, <<"NUMBER(10)", "NUMBER">>,
      <<"NUMBER(10,2)", "NUMBER">>, <<"NUMBER(2)", "NUMBER">>, <<"NUMBER(3)", "NUMBER">>,
      <<"NUMBER(3,2)", "NUMBER">>, <<"NUMBER(4)", "NUMBER">>, <<"NUMBER(4,2)", "NUMBER">>,
      <<"NUMBER(8)", "NUMBER">>, <<"NUMBER(8,2)", "NUMBER">>, <<"DATE", "DATE">>,
      <<"cost", "cost">>, <<"loan_amount", "amount">>, <<"commission_rate", "rate">>,
      <<"interest_rate", "rate">>, <<"phone", "phone">>, <<"address", "address">>,
      <<"location", "location">>, <<"term_months", "term">>, <<"credit_score", "score">>,
      <<"financing_type", "type">>, <<"service_type", "type">>, <<"title", "title">> }

includes(text, needle) == <<text, needle>> \in Includes

\* difficulty.toLowerCase()
toLowerCase(difficulty) ==
    IF difficulty = "Easy" THEN "easy" ELSE IF difficulty = "Medium" THEN "medium" ELSE "hard"

\* getColumnDescription of annotationService.ts
getColumnDescription(columnName, columnType) ==
    IF includes(columnName, "id")
    THEN "Unique identifier used for relationships and data integrity"
    ELSE IF includes(columnName, "name") THEN "Human-readable name or title field"
    ELSE IF includes(columnName, "email")
    THEN "Contact email address with standard format validation"
    ELSE IF includes(columnName, "date")
    THEN "Temporal data point for tracking chronological events"
    ELSE IF includes(columnType, "VARCHAR")
    THEN "Variable-length text field for descriptive content"
    ELSE IF includes(columnType, "NUMBER")
    THEN "Numeric field for calculations and measurements"
    ELSE "Data field contributing to the overall entity representation"

\* getColumnDescription of part_007
edgeColumnDescription(columnName, columnType) ==
    IF includes(columnName, "id")
    THEN "Unique identifier used for relationships and data integrity"
    ELSE IF includes(columnName, "name") \/ includes(columnName, "make")
            \/ includes(columnName, "model")
    THEN "Human-readable name or title field"
    ELSE IF includes(columnName, "email")
    THEN "Contact email address with standard format validation"
    ELSE IF includes(columnName, "price") THEN "Monetary value for financial calculations"
    ELSE IF includes(columnName, "year") THEN "Year specification for temporal filtering"
    ELSE IF includes(columnName, "status") THEN "Status indicator for workflow management"
    ELSE IF includes(columnType, "VARCHAR")
    THEN "Variable-length text field for descriptive content"
    ELSE IF includes(columnType, "NUMBER")
    THEN "Numeric field for calculations and measurements"
    ELSE "Data field contributing to the overall entity representation"

\* Math.floor(Math.random() * 10000) + 100 for the draw r
rowCount(r) == (r * 10000) \div RandDen + 100

\* getSampleDataFromTables: one entry per table; rowCounts[i] is the draw of
\* table i.  Only tableName and rowCount are read afterwards.
getSampleDataFromTables(tables, rowCounts) ==
    [i \in 1..Len(tables) |-> [tableName |-> tables[i].name, rowCount |-> rowCount(rowCounts[i])]]

\* sampleData?.find(s => s.tableName === table.name)?.rowCount || 'unknown'
sampleRowCount(sampleData, tableName) ==
    IF \E i \in 1..Len(sampleData) : sampleData[i].tableName = tableName
    THEN ToString(sampleData[CHOOSE i \in 1..Len(sampleData) :
                                 /\ sampleData[i].tableName = tableName
                                 /\ \A j \in 1..(i - 1) : sampleData[j].tableName # tableName].rowCount)
    ELSE "unknown"

\* generateEnhancedAnnotations of annotationService.ts (lines 274-291); the
\* fallback of line 97 passes no sampleData (<<>> here).
generateEnhancedAnnotations(database, tables, sampleData) ==
    [i \in 1..Len(tables) |->
        [tableName |-> tables[i].name,
         description |->
             tables[i].name \o " contains " \o ToString(Len(tables[i].columns))
             \o " columns with approximately " \o sampleRowCount(sampleData, tables[i].name)
             \o " records. This table is part of the " \o database.name \o " dataset ("
             \o database.difficulty \o " complexity) used in Spider benchmark evaluation.",
         columns |->
             [j \in 1..Len(tables[i].columns) |->
                 LET col == tables[i].columns[j] IN
                 [name |-> col.name,
                  type |-> col.type,
                  description |->
                      col.name \o " field of type " \o col.type
                      \o (IF col.nullable THEN " (nullable)" ELSE " (required)") \o ". "
                      \o getColumnDescription(col.name, col.type),
                  businessContext |->
                      Some("Used in " \o toLowerCase(database.difficulty)
                           \o "-level SQL queries for Spider benchmark testing")]]]]

\* generateEnhancedAnnotations of part_007 (lines 308-323)
edgeEnhancedAnnotations(database, tables, sampleData) ==
    [i \in 1..Len(tables) |->
        [tableName |-> tables[i].name,
         description |->
             tables[i].name \o " contains " \o ToString(Len(tables[i].columns))
             \o " columns with approximately " \o sampleRowCount(sampleData, tables[i].name)
             \o " records. This table is part of the " \o database.name \o " dataset ("
             \o database.difficulty \o " complexity) used in Spider benchmark evaluation.",
         columns |->
             [j \in 1..Len(tables[i].columns) |->
                 LET col == tables[i].columns[j] IN
                 [name |-> col.name,
                  type |-> col.type,
                  description |->
                      col.name \o " field of type " \o col.type
                      \o (IF col.nullable THEN " (nullable)" ELSE " (required)") \o ". "
                      \o edgeColumnDescription(col.name, col.type),
                  businessContext |->
                      Some("Used in " \o toLowerCase(database.difficulty)
                           \o "-level SQL queries for Spider benchmark testing")]]]]

\* parseAnnotationsFromGeminiResponse, once response.candidates[0] could be read:
\* the text of the candidate is not used, the entries are built from the schema.
parseAnnotationsFromGeminiResponse(tables) ==
    [i \in 1..Len(tables) |->
        [tableName |-> tables[i].name,
         description |-> "Generated by LLM analysis of " \o tables[i].name
                         \o " table structure and data patterns",
         columns |->
             [j \in 1..Len(tables[i].columns) |->
                 LET col == tables[i].columns[j] IN
                 [name |-> col.name,
                  type |-> col.type,
                  description |-> "LLM-generated description for " \o col.name
                                  \o " based on data analysis",
                  businessContext |-> Some("Contextual annotation from real data patterns in "
                                           \o tables[i].name)]]]]

\* The "basic mock data" of the catch block of annotationService.ts:409-420.
basicMockAnnotations(database) ==
    << [tableName |-> "customers",
        description |-> "Customer data for " \o database.name \o " system",
        columns |-> << [name |-> "customer_id", type |-> "NUMBER",
                        description |-> "Unique customer identifier", businessContext |-> None],
                       [name |-> "name", type |-> "VARCHAR",
                        description |-> "Customer full name", businessContext |-> None] >>] >>

\* What the fetch of the model endpoint and the reading of its answer can do:
\*   "ok"           200, JSON with a candidate
\*   "emptyText"    200, JSON whose candidate has no text
\*   "httpError"    response.ok is false
\*   "networkError" fetch rejects
\*   "badJson"      response.json() rejects
\*   "noCandidates" JSON without candidates: response.candidates[0] throws
ModelOutcomes == {"ok", "emptyText", "httpError", "networkError", "badJson", "noCandidates"}

modelFailed(outcome) == outcome \in {"httpError", "networkError", "badJson", "noCandidates"}

\* config.snowflake.user: unset, the placeholder of credentials.ts, or a real name.
SnowflakeUsers == {"", "BANSALSHUBHAM", "analyst"}

\* config.gemini.apiKey: unset, the placeholder, or a key.
GeminiKeys == {"", "your_gemini_api_key_here", "key"}

\* getActualDatabaseSchema of annotationService.ts (lines 119-150): the tables,
\* or the message of the error its catch block rethrows.
getActualDatabaseSchema(database, user) ==
    IF user = "" \/ user = "BANSALSHUBHAM"
    THEN [ok |-> FALSE, tables |-> <<>>,
          message |-> "Failed to fetch schema for " \o database.name
                      \o ": Snowflake credentials not properly configured"]
    ELSE [ok |-> TRUE, tables |-> generateRealisticSchema(database), message |-> ""]

\* A result of generateDatabaseAnnotations as its caller sees it: the resolved
\* annotations, the resolved question set, or the message of the rejection.
AnnotationsResult(anns) ==
    [kind |-> "annotations", annotations |-> anns, questions |-> <<>>, message |-> ""]
InteractiveResult(qs) ==
    [kind |-> "interactive", annotations |-> <<>>, questions |-> qs, message |-> ""]
ErrorResult(msg) ==
    [kind |-> "error", annotations |-> <<>>, questions |-> <<>>, message |-> msg]

\* error.message of the model call for each failing outcome.
modelErrorMessage(outcome) ==
    IF outcome = "httpError" THEN "Gemini API error: Service Unavailable"
    ELSE IF outcome = "networkError" THEN "Failed to fetch"
    ELSE IF outcome = "badJson" THEN "Unexpected end of JSON input"
    ELSE "Cannot read properties of undefined (reading '0')"

\* Draws of Math.random() for the rowCount of each table of a schema.
RowCountDraws(tables) == [1..Len(tables) -> Randoms]

\* annotationService.ts:46-59: the first schema fetch, the samples, and the
\* check of the model key.
GenerateStart ==
    /\ annPc \in {"idle", "done"}
    /\ \E database \in Databases, user \in SnowflakeUsers, apiKey \in GeminiKeys :
         LET schema == getActualDatabaseSchema(database, user) IN
         /\ annRequest' = Some([path |-> "direct", database |-> database,
                                processType |-> "standard"])
         /\ annConfig' = [user |-> user, password |-> "configured", apiKey |-> apiKey]
         /\ annSchemaFetches' = 1
         /\ annModel' = None
         /\ annEdgeResponse' = None
         /\ IF ~schema.ok
            THEN /\ annSchemaErrors' = <<schema.message>>
                 /\ annCaught' = Some(schema.message)
                 /\ annTables' = <<>>
                 /\ annSample' = <<>>
                 /\ annOutcome' = None
                 /\ annPc' = "catch"
            ELSE /\ annSchemaErrors' = <<>>
                 /\ annCaught' = None
                 /\ annTables' = schema.tables
                 /\ \E draws \in RowCountDraws(schema.tables) :
                      /\ annSample' = getSampleDataFromTables(schema.tables, draws)
                      /\ IF apiKey = "" \/ apiKey = "your_gemini_api_key_here"
                         THEN /\ annOutcome' = Some(AnnotationsResult(
                                   generateEnhancedAnnotations(database, schema.tables,
                                       getSampleDataFromTables(schema.tables, draws))))
                              /\ annPc' = "done"
                         ELSE /\ annOutcome' = None
                              /\ annPc' = "model"
    /\ UNCHANGED <<scVars, hVars, ctxVars, runVars, svcVars, iaVars, cqVars, stVars, smVars, wzVars, agVars, srVars>>

\* annotationService.ts:61-91: the model call and the reading of its answer.
GenerateCallModel ==
    /\ annPc = "model"
    /\ \E outcome \in ModelOutcomes :
         /\ annModel' = Some(outcome)
         /\ IF modelFailed(outcome)
            THEN /\ annCaught' = Some(modelErrorMessage(outcome))
                 /\ annOutcome' = None
                 /\ annPc' = "catch"
            ELSE /\ annCaught' = None
                 /\ annOutcome' = Some(AnnotationsResult(
                                       parseAnnotationsFromGeminiResponse(annTables)))
                 /\ annPc' = "done"
    /\ UNCHANGED <<annRequest, annConfig, annSchemaFetches, annSchemaErrors, annTables,
                   annSample, annEdgeResponse>>
    /\ UNCHANGED <<scVars, hVars, ctxVars, runVars, svcVars, iaVars, cqVars, stVars, smVars, wzVars, agVars, srVars>>

\* annotationService.ts:92-100: the catch block fetches the schema again and
\* answers with the enhanced annotations, or throws its own message.
GenerateCatch ==
    /\ annPc = "catch"
    /\ LET database == Get(annRequest).database
           schema == getActualDatabaseSchema(database, annConfig.user) IN
         /\ annSchemaFetches' = annSchemaFetches + 1
         /\ IF schema.ok
            THEN /\ annSchemaErrors' = annSchemaErrors
                 /\ annOutcome' = Some(AnnotationsResult(
                                       generateEnhancedAnnotations(database, schema.tables, <<>>)))
            ELSE /\ annSchemaErrors' = Append(annSchemaErrors, schema.message)
                 /\ annOutcome' = Some(ErrorResult(
                        "Failed to generate annotations and retrieve database schema. Please check your credentials."))
    /\ annPc' = "done"
    /\ UNCHANGED <<annRequest, annConfig, annTables, annSample, annModel, annCaught,
                   annEdgeResponse>>
    /\ UNCHANGED <<scVars, hVars, ctxVars, runVars, svcVars, iaVars, cqVars, stVars, smVars, wzVars, agVars, srVars>>

\* Array.prototype.join(', ')
RECURSIVE join(_)
join(xs) ==
    IF Len(xs) = 0 THEN ""
    ELSE IF Len(xs) = 1 THEN xs[1]
    ELSE xs[1] \o ", " \o join(Tail(xs))

\* generateSampleValuesForColumn of part_007 (lines 287-294)
edgeSampleValuesForColumn(col) ==
    IF includes(col.name, "id") THEN <<"1", "2", "3">>
    ELSE IF includes(col.name, "name") \/ includes(col.name, "make")
    THEN <<"Toyota", "Honda", "Ford">>
    ELSE IF includes(col.name, "email")
    THEN <<"john@example.com", "jane@example.com", "bob@example.com">>
    ELSE IF includes(col.name, "status") THEN <<"active", "inactive", "pending">>
    ELSE IF includes(col.name, "price") THEN <<"25000.00", "35000.00", "45000.00">>
    ELSE <<"Value1", "Value2", "Value3">>

\* getColumnHypothesis of part_007 (lines 296-306)
edgeColumnHypothesis(columnName, columnType) ==
    IF includes(columnName, "id") THEN "unique identifier field"
    ELSE IF includes(columnName, "name") \/ includes(columnName, "make")
            \/ includes(columnName, "model")
    THEN "descriptive name or title field"
    ELSE IF includes(columnName, "email") THEN "contact email address"
    ELSE IF includes(columnName, "status") THEN "status or state indicator"
    ELSE IF includes(columnName, "price") THEN "monetary value field"
    ELSE IF includes(columnName, "year") THEN "year or date field"
    ELSE IF includes(columnType, "VARCHAR") THEN "text-based descriptive field"
    ELSE IF includes(columnType, "NUMBER") THEN "numeric measurement or count field"
    ELSE "data attribute field"

\* generateInteractiveQuestions of part_007 (lines 195-225); it sets no
\* table_questions and asks one question per column.
edgeInteractiveQuestions(database, tables) ==
    [i \in 1..Len(tables) |->
        [table_name |-> tables[i].name,
         table_hypothesis |->
             "The " \o tables[i].name \o " table appears to store " \o tables[i].name
             \o " information with " \o ToString(Len(tables[i].columns))
             \o " attributes including identifiers and descriptive fields.",
         table_questions |-> <<>>,
         columns |->
             [j \in 1..Len(tables[i].columns) |->
                 LET col == tables[i].columns[j]
                     sampleValues == edgeSampleValuesForColumn(col)
                     enumValues == IF includes(col.type, "VARCHAR")
                                   THEN SubSeq(sampleValues, 1, 3) ELSE <<>>
                     hypothesis == edgeColumnHypothesis(col.name, col.type) IN
                 [column_name |-> col.name,
                  data_type |-> col.type,
                  sample_values |-> sampleValues,
                  enum_values_found |-> enumValues,
                  hypothesis |-> col.name \o " appears to be a " \o hypothesis,
                  questions_for_user |->
                      << [question_text |->
                              "Is my understanding of " \o col.name \o " as " \o hypothesis
                              \o " correct?"
                              \o (IF Len(enumValues) > 0
                                  THEN " Please define these values: " \o join(enumValues)
                                  ELSE ""),
                          question_type |-> IF Len(enumValues) > 0
                                            THEN "free_text_definitions" ELSE "yes_no",
                          options |-> <<>>] >>]]]]

\* processType of the options of a request
ProcessTypes == {"standard", "interactive"}

\* The answer of the edge function: status 200 with the annotations or the
\* question set, or status 400 with error.message.
edgeResponse(status, result) == [status |-> status, data |-> result]

\* annotationService.ts:381-394 sends the request; part_007:26-92 serves it up
\* to the model call: the check of the credentials of the environment, the
\* schema, the samples, then the question set (interactive) or, without a model
\* key, the enhanced annotations.
EdgeServe ==
    /\ annPc \in {"idle", "done"}
    /\ \E database \in Databases, processType \in ProcessTypes,
          user \in {"", "analyst"}, password \in {"", "configured"}, apiKey \in {"", "key"} :
         LET tables == edgeRealisticSchema(database) IN
         /\ annRequest' = Some([path |-> "edge", database |-> database,
                                processType |-> processType])
         /\ annConfig' = [user |-> user, password |-> password, apiKey |-> apiKey]
         /\ annModel' = None
         /\ annCaught' = None
         /\ annOutcome' = None
         /\ annSchemaErrors' = <<>>
         /\ IF user = "" \/ password = ""
            THEN /\ annSchemaFetches' = 0
                 /\ annTables' = <<>>
                 /\ annSample' = <<>>
                 /\ annEdgeResponse' = Some(edgeResponse(400, ErrorResult(
                        "Snowflake credentials not configured in environment variables")))
                 /\ annPc' = "client"
            ELSE /\ annSchemaFetches' = 1
                 /\ annTables' = tables
                 /\ \E draws \in RowCountDraws(tables) :
                      LET sampleData == getSampleDataFromTables(tables, draws) IN
                      /\ annSample' = sampleData
                      /\ IF processType = "interactive"
                         THEN /\ annEdgeResponse' = Some(edgeResponse(200,
                                   InteractiveResult(edgeInteractiveQuestions(database, tables))))
                              /\ annPc' = "client"
                         ELSE IF apiKey = ""
                         THEN /\ annEdgeResponse' = Some(edgeResponse(200,
                                   AnnotationsResult(
                                       edgeEnhancedAnnotations(database, tables, sampleData))))
                              /\ annPc' = "client"
                         ELSE /\ annEdgeResponse' = None
                              /\ annPc' = "edgeModel"
    /\ UNCHANGED <<scVars, hVars, ctxVars, runVars, svcVars, iaVars, cqVars, stVars, smVars, wzVars, agVars, srVars>>

\* A generateStandardAnnotations without its catch block: the error of the model
\* call reaches the catch of serve, which answers 400.
EdgeCallModelPropagating ==
    /\ annPc = "edgeModel"
    /\ \E outcome \in ModelOutcomes :
         /\ annModel' = Some(outcome)
         /\ IF modelFailed(outcome)
            THEN /\ annCaught' = Some(modelErrorMessage(outcome))
                 /\ annEdgeResponse' = Some(edgeResponse(400,
                                            ErrorResult(modelErrorMessage(outcome))))
            ELSE /\ annCaught' = None
                 /\ annEdgeResponse' = Some(edgeResponse(200, AnnotationsResult(
                        parseAnnotationsFromGeminiResponse(annTables))))
    /\ annPc' = "client"
    /\ UNCHANGED <<annRequest, annConfig, annSchemaFetches, annSchemaErrors, annTables,
                   annSample, annOutcome>>
    /\ UNCHANGED <<scVars, hVars, ctxVars, runVars, svcVars, iaVars, cqVars, stVars, smVars, wzVars, agVars, srVars>>

\* generateStandardAnnotations of part_007 (lines 159-192): the model call; its
\* catch block answers with the enhanced annotations.
EdgeCallModel ==
    /\ annPc = "edgeModel"
    /\ \E outcome \in ModelOutcomes :
         /\ annModel' = Some(outcome)
         /\ IF modelFailed(outcome)
            THEN /\ annCaught' = Some(modelErrorMessage(outcome))
                 /\ annEdgeResponse' = Some(edgeResponse(200, AnnotationsResult(
                        edgeEnhancedAnnotations(Get(annRequest).database, annTables, annSample))))
            ELSE /\ annCaught' = None
                 /\ annEdgeResponse' = Some(edgeResponse(200, AnnotationsResult(
                        parseAnnotationsFromGeminiResponse(annTables))))
    /\ annPc' = "client"
    /\ UNCHANGED <<annRequest, annConfig, annSchemaFetches, annSchemaErrors, annTables,
                   annSample, annOutcome>>
    /\ UNCHANGED <<scVars, hVars, ctxVars, runVars, svcVars, iaVars, cqVars, stVars, smVars, wzVars, agVars, srVars>>

\* annotationService.ts:396-420: the client reads {data, error} of the
\* invocation; an error (a non-2xx answer, or an answer that never arrived) is
\* thrown and caught, and the basic mock annotations are returned.
ClientReceive ==
    /\ annPc = "client"
    /\ \E delivered \in BOOLEAN :
         LET response == Get(annEdgeResponse) IN
         IF ~delivered \/ response.status # 200
         THEN /\ annCaught' = Some(IF delivered THEN response.data.message
                                   ELSE "Failed to send a request to the Edge Function")
              /\ annOutcome' = Some(AnnotationsResult(
                                    basicMockAnnotations(Get(annRequest).database)))
         ELSE /\ annCaught' = annCaught
              /\ annOutcome' = Some(response.data)
    /\ annPc' = "done"
    /\ UNCHANGED <<annRequest, annConfig, annSchemaFetches, annSchemaErrors, annTables,
                   annSample, annModel, annEdgeResponse>>
    /\ UNCHANGED <<scVars, hVars, ctxVars, runVars, svcVars, iaVars, cqVars, stVars, smVars, wzVars, agVars, srVars>>

AnnotateInit ==
    /\ annPc = "idle"
    /\ annRequest = None
    /\ annConfig = [user |-> "", password |-> "", apiKey |-> ""]
    /\ annSchemaFetches = 0
    /\ annSchemaErrors = <<>>
    /\ annTables = <<>>
    /\ annSample = <<>>
    /\ annModel = None
    /\ annCaught = None
    /\ annEdgeResponse = None
    /\ annOutcome = None

(***************************************************************************)
(* Part 5: the interactive interview - the question generator of           *)
(* annotationService.ts (lines 514-849), InteractiveAnnotationHandler.tsx  *)
(* and the reconciliation processUserAnswersAndGenerateAnnotations         *)
(***************************************************************************)

\* generateRealisticSchemaForDatabase (annotationService.ts:552-655): car_1 and
\* academic are listed, every other id falls back to academic.
generateRealisticSchemaForDatabase(database) ==
    IF database.id = "car_1"
    THEN
      << [name |-> "vehicles",
          columns |-> << Column("vehicle_id", "NUMBER(10)", FALSE),
                         Column("make", "VARCHAR(50)", FALSE),
                         Column("model", "VARCHAR(50)", FALSE),
                         Column("year", "NUMBER(4)", FALSE),
                         Column("price", "NUMBER(10,2)", FALSE),
                         Column("mileage", "NUMBER(8)", TRUE),
                         Column("color", "VARCHAR(30)", TRUE),
                         Column("status", "VARCHAR(20)", FALSE),
                         Column("dealer_id", "NUMBER(10)", FALSE) >>],
         [name |-> "customers",
          columns |-> << Column("customer_id", "NUMBER(10)", FALSE),
                         Column("first_name", "VARCHAR(50)", FALSE),
                         Column("last_name", "VARCHAR(50)", FALSE),
                         Column("email", "VARCHAR(100)", TRUE),
                         Column("phone", "VARCHAR(20)", TRUE),
                         Column("address", "VARCHAR(200)", TRUE),
                         Column("credit_score", "NUMBER(3)", TRUE) >>],
         [name |-> "sales",
          columns |-> << Column("sale_id", "NUMBER(10)", FALSE),
                         Column("vehicle_id", "NUMBER(10)", FALSE),
                         Column("customer_id", "NUMBER(10)", FALSE),
                         Column("sale_date", "DATE", FALSE),
                         Column("sale_price", "NUMBER(10,2)", FALSE),
                         Column("financing_type", "VARCHAR(20)", TRUE),
                         Column("salesperson_id", "NUMBER(10)", FALSE) >>],
         [name |-> "dealers",
          columns |-> << Column("dealer_id", "NUMBER(10)", FALSE),
                         Column("dealer_name", "VARCHAR(100)", FALSE),
                         Column("location", "VARCHAR(100)", FALSE),
                         Column("phone", "VARCHAR(20)", TRUE),
                         Column("manager_id", "NUMBER(10)", TRUE) >>],
         [name |-> "salespeople",
          columns |-> << Column("salesperson_id", "NUMBER(10)", FALSE),
                         Column("first_name", "VARCHAR(50)", FALSE),
                         Column("last_name", "VARCHAR(50)", FALSE),
                         Column("dealer_id", "NUMBER(10)", FALSE),
                         Column("hire_date", "DATE", FALSE),
                         Column("commission_rate", "NUMBER(3,2)", FALSE) >>],
         [name |-> "service_records",
          columns |-> << Column("service_id", "NUMBER(10)", FALSE),
                         Column("vehicle_id", "NUMBER(10)", FALSE),
                         Column("service_date", "DATE", FALSE),
                         Column("service_type", "VARCHAR(50)", FALSE),
                         Column("cost", "NUMBER(8,2)", FALSE),
                         Column("technician", "VARCHAR(50)", TRUE) >>],
         [name |-> "financing",
          columns |-> << Column("financing_id", "NUMBER(10)", FALSE),
                         Column("sale_id", "NUMBER(10)", FALSE),
                         Column("loan_amount", "NUMBER(10,2)", FALSE),
                         Column("interest_rate", "NUMBER(4,2)", FALSE),
                         Column("term_months", "NUMBER(3)", FALSE),
                         Column("monthly_payment", "NUMBER(8,2)", FALSE),
                         Column("lender", "VARCHAR(50)", FALSE) >>] >>
    ELSE
      << [name |-> "students",
          columns |-> << Column("student_id", "NUMBER(10)", FALSE),
                         Column("first_name", "VARCHAR(50)", FALSE),
                         Column("last_name", "VARCHAR(50)", FALSE),
                         Column("email", "VARCHAR(100)", TRUE),
                         Column("enrollment_date", "DATE", FALSE),
                         Column("major", "VARCHAR(50)", TRUE),
                         Column("gpa", "NUMBER(3,2)", TRUE) >>] >>

\* getTablePurpose (annotationService.ts:713-724)
getTablePurpose(tableName) ==
    IF tableName = "vehicles" THEN "automotive inventory and vehicle specifications"
    ELSE IF tableName = "customers" THEN "customer information and contact details"
    ELSE IF tableName = "sales" THEN "transaction records and sales activities"
    ELSE IF tableName = "students" THEN "student enrollment and academic information"
    ELSE IF tableName = "courses" THEN "academic course catalog and requirements"
    ELSE IF tableName = "orders" THEN "purchase orders and transaction history"
    ELSE IF tableName = "products" THEN "product catalog and specifications"
    ELSE "data entities and their attributes"

\* getTableRole (annotationService.ts:726-735)
getTableRole(tableName) ==
    IF tableName = "vehicles" THEN "the main inventory management component"
    ELSE IF tableName = "customers" THEN "the customer relationship management hub"
    ELSE IF tableName = "sales" THEN "the transactional processing center"
    ELSE IF tableName = "students" THEN "the student information system core"
    ELSE IF tableName = "courses" THEN "the academic catalog foundation"
    ELSE "a key data storage component"

UserQuestion(text, type, options) ==
    [question_text |-> text, question_type |-> type, options |-> options]

\* generateTableQuestions (annotationService.ts:657-668)
generateTableQuestions(tableName, databaseName) ==
    << UserQuestion("What is the primary business purpose of the " \o tableName
                    \o " table in the " \o databaseName \o " system?",
                    "free_text_definitions", <<>>),
       UserQuestion("Are there any important business rules or constraints for the "
                    \o tableName \o " table that would affect SQL queries?",
                    "free_text_definitions", <<>>) >>

\* generateSampleValuesForColumn (annotationService.ts:737-754)
generateSampleValuesForColumn(col) ==
    IF includes(col.name, "id") THEN <<"1", "2", "3">>
    ELSE IF col.name = "make" THEN <<"Toyota", "Honda", "Ford">>
    ELSE IF col.name = "model" THEN <<"Camry", "Accord", "F-150">>
    ELSE IF col.name = "status" THEN <<"available", "sold", "pending">>
    ELSE IF col.name = "color" THEN <<"Red", "Blue", "White">>
    ELSE IF col.name = "financing_type" THEN <<"cash", "loan", "lease">>
    ELSE IF col.name = "service_type" THEN <<"oil_change", "brake_repair", "inspection">>
    ELSE IF col.name = "lender" THEN <<"Bank of America", "Wells Fargo", "Credit Union">>
    ELSE IF includes(col.name, "name") THEN <<"John", "Jane", "Bob">>
    ELSE IF includes(col.name, "email")
    THEN <<"john@example.com", "jane@example.com", "bob@example.com">>
    ELSE IF includes(col.name, "phone")
    THEN <<"555-123-4567", "555-234-5678", "555-345-6789">>
    ELSE IF includes(col.name, "price") \/ includes(col.name, "cost")
            \/ includes(col.name, "amount")
    THEN <<"25000.00", "35000.00", "45000.00">>
    ELSE IF includes(col.name, "year") THEN <<"2021", "2022", "2023">>
    ELSE IF includes(col.name, "date") THEN <<"2024-01-15", "2024-02-20", "2024-03-10">>
    ELSE IF includes(col.name, "rate") THEN <<"3.50", "4.25", "5.00">>
    ELSE <<"Value1", "Value2", "Value3">>

\* The column names of the schemas that match
\* /(status|type|category|color|make|model|gender|state)/i.
EnumNames == {"color", "financing_type", "make", "model", "service_type", "status"}

\* getEnumValuesForColumn (annotationService.ts:756-761)
getEnumValuesForColumn(col, sampleValues) ==
    IF includes(col.type, "VARCHAR") /\ col.name \in EnumNames
    THEN SubSeq(sampleValues, 1, Min(3, Len(sampleValues)))
    ELSE <<>>

\* getColumnHypothesis (annotationService.ts:763-787)
getColumnHypothesis(columnName, columnType) ==
    IF includes(columnName, "id")
    THEN "a unique identifier field used for primary key or foreign key relationships"
    ELSE IF columnName = "make" THEN "the vehicle manufacturer or brand name"
    ELSE IF columnName = "model" THEN "the specific vehicle model designation"
    ELSE IF columnName = "year" THEN "the manufacturing year of the vehicle"
    ELSE IF includes(columnName, "price") \/ includes(columnName, "cost")
            \/ includes(columnName, "amount")
    THEN "a monetary value representing cost or valuation"
    ELSE IF columnName = "status"
    THEN "a categorical field indicating current state or condition"
    ELSE IF columnName = "color" THEN "a categorical field for vehicle color specification"
    ELSE IF columnName = "service_type"
    THEN "a categorical field indicating the type of service performed"
    ELSE IF columnName = "lender" THEN "the financial institution providing the loan"
    ELSE IF includes(columnName, "rate") THEN "a percentage or rate value for calculations"
    ELSE IF includes(columnName, "name")
    THEN "a descriptive text field for person or entity names"
    ELSE IF includes(columnName, "email")
    THEN "a contact email address with standard email format"
    ELSE IF includes(columnName, "phone") THEN "a contact phone number field"
    ELSE IF includes(columnName, "address") \/ includes(columnName, "location")
    THEN "a physical or mailing address field"
    ELSE IF includes(columnName, "date") THEN "a temporal field tracking important timestamps"
    ELSE IF columnName = "financing_type"
    THEN "a categorical field indicating payment method or financing option"
    ELSE IF columnName = "mileage" THEN "a numeric field tracking vehicle usage/distance"
    ELSE IF columnName = "credit_score" THEN "a numeric assessment of creditworthiness"
    ELSE IF includes(columnName, "term") THEN "a duration or time period specification"
    ELSE IF includes(columnType, "VARCHAR")
    THEN "a text-based descriptive or categorical field"
    ELSE IF includes(columnType, "NUMBER")
    THEN "a numeric field for calculations, measurements, or counts"
    ELSE IF includes(columnType, "DATE") THEN "a date/time field for temporal data tracking"
    ELSE "a data attribute that contributes to the entity definition"

\* tableName.slice(0, -1) for the table names of the schemas
sliceLast(tableName) ==
    IF tableName = "vehicles" THEN "vehicle"
    ELSE IF tableName = "customers" THEN "customer"
    ELSE IF tableName = "sales" THEN "sale"
    ELSE IF tableName = "dealers" THEN "dealer"
    ELSE IF tableName = "salespeople" THEN "salespeopl"
    ELSE IF tableName = "service_records" THEN "service_record"
    ELSE IF tableName = "financing" THEN "financin"
    ELSE "student"

\* generateQuestionsForColumn (annotationService.ts:789-849)
generateQuestionsForColumn(col, enumValues, tableName) ==
    LET enumQuestion ==
            IF Len(enumValues) > 0
            THEN << UserQuestion("I found these values for " \o col.name \o ": "
                        \o join(enumValues)
                        \o ". Please define what each value means and if there are other possible values I should know about.",
                        "free_text_definitions", <<>>) >>
            ELSE <<>>
        idQuestions ==
            << UserQuestion("Is " \o col.name \o " the primary key for " \o tableName
                   \o "? If not, does it reference another table?",
                   "multiple_choice",
                   <<"Primary key", "Foreign key to another table",
                     "Both primary and foreign key", "Neither">>) >>
            \o (IF col.name # sliceLast(tableName) \o "_id" /\ col.name # "id"
                THEN << UserQuestion("What table does " \o col.name
                            \o " reference and what is the relationship?",
                            "free_text_definitions", <<>>) >>
                ELSE <<>>)
        moneyQuestions ==
            << UserQuestion("For " \o col.name
                   \o ", what currency is used and are there any business rules (e.g., discounts, taxes, minimum/maximum values)?",
                   "free_text_definitions", <<>>),
               UserQuestion("Are there typical ranges or categories for " \o col.name
                   \o " that would be useful for query optimization?",
                   "free_text_definitions", <<>>) >>
        dateQuestions ==
            << UserQuestion("What does " \o col.name
                   \o " represent exactly? Is it automatically set or user-entered?",
                   "multiple_choice",
                   <<"System generated timestamp", "User entered date",
                     "Calculated/derived date", "External system date">>) >>
        rateQuestions ==
            << UserQuestion("What is the valid range for " \o col.name
                   \o " and how is it calculated?", "free_text_definitions", <<>>) >>
        otherQuestions ==
            << UserQuestion("Is my understanding of " \o col.name \o " as "
                   \o getColumnHypothesis(col.name, col.type) \o " accurate?",
                   "yes_no", <<>>) >>
            \o (IF ~includes(col.name, "id")
                THEN << UserQuestion("Are there any specific constraints, formats, or business rules for "
                            \o col.name \o " that SQL queries should consider?",
                            "free_text_definitions", <<>>) >>
                ELSE <<>>)
    IN enumQuestion
       \o (IF includes(col.name, "id") THEN idQuestions
           ELSE IF includes(col.name, "price") \/ includes(col.name, "amount")
                   \/ includes(col.name, "cost")
           THEN moneyQuestions
           ELSE IF includes(col.name, "date") \/ includes(col.name, "time") THEN dateQuestions
           ELSE IF includes(col.name, "rate") \/ includes(col.name, "score") THEN rateQuestions
           ELSE otherQuestions)

\* generateInteractiveQuestions (annotationService.ts:514-549): the questions
\* array of the result, one TableQuestionSet per table of the schema.
generateInteractiveQuestions(database, tables) ==
    [i \in 1..Len(tables) |->
        [table_name |-> tables[i].name,
         table_hypothesis |->
             "The " \o tables[i].name \o " table appears to store "
             \o getTablePurpose(tables[i].name) \o " with "
             \o ToString(Len(tables[i].columns))
             \o " attributes. Based on the schema structure, it likely serves as "
             \o getTableRole(tables[i].name) \o " in the " \o database.name \o " system.",
         table_questions |-> generateTableQuestions(tables[i].name, database.name),
         columns |->
             [j \in 1..Len(tables[i].columns) |->
                 LET col == tables[i].columns[j]
                     sampleValues == generateSampleValuesForColumn(col)
                     enumValues == getEnumValuesForColumn(col, sampleValues) IN
                 [column_name |-> col.name,
                  data_type |-> col.type,
                  sample_values |-> sampleValues,
                  enum_values_found |-> enumValues,
                  hypothesis |-> col.name \o " appears to be "
                                 \o getColumnHypothesis(col.name, col.type),
                  questions_for_user |->
                      generateQuestionsForColumn(col, enumValues, tables[i].name)]]]]

\* The interview is explored on the first MaxTables tables of a question set
\* and, in them, on the columns named in InterviewColumns.
MaxTables == 2
InterviewColumns == {"status", "student_id"}

inInterview(col) == col.column_name \in InterviewColumns

interviewQuestions(questions) ==
    [i \in 1..Min(MaxTables, Len(questions)) |->
        [questions[i] EXCEPT !.columns = SelectSeq(questions[i].columns, inInterview)]]

\* The question sets an InteractiveAnnotationHandler is mounted with: those of
\* generateInteractiveQuestions above and those of the edge function (part_007).
QuestionSets ==
    { interviewQuestions(generateInteractiveQuestions(database,
          generateRealisticSchemaForDatabase(database))) : database \in Databases }
    \cup { interviewQuestions(edgeInteractiveQuestions(database,
               edgeRealisticSchema(database))) : database \in Databases }

\* JavaScript objects with string keys: functions over a set of strings.
EmptyObject == [k \in {} |-> k]
hasKey(obj, k) == k \in DOMAIN obj
put(obj, k, v) == [x \in DOMAIN obj \cup {k} |-> IF x = k THEN v ELSE obj[x]]
\* obj[k] || {}
propOrEmpty(obj, k) == IF hasKey(obj, k) THEN obj[k] ELSE EmptyObject
\* obj[k] || '' for a string property
propOrBlank(obj, k) == IF hasKey(obj, k) THEN obj[k] ELSE ""
\* Object.keys(obj).length
keysLength(obj) == Cardinality(DOMAIN obj)

questionKey(questionIndex) == "question_" \o ToString(questionIndex)

\* `${hypothesis} ${answer}`.trim(); the hypotheses and the answers of this
\* module carry no leading or trailing white space.
trimJoin(hypothesis, answer) ==
    IF answer = "" THEN hypothesis ELSE hypothesis \o " " \o answer

\* The TableAnnotation built for one TableQuestionSet (annotationService.ts:434-443)
reconcileTable(tableQuestion, tableAnswers) ==
    [tableName |-> tableQuestion.table_name,
     description |-> trimJoin(tableQuestion.table_hypothesis,
                              propOrBlank(tableAnswers, "table_description")),
     columns |->
        [j \in 1..Len(tableQuestion.columns) |->
            LET col == tableQuestion.columns[j]
                colAnswers == propOrEmpty(tableAnswers, col.column_name)
                context == propOrBlank(colAnswers, "businessContext") IN
            [name |-> col.column_name,
             type |-> col.data_type,
             description |-> trimJoin(col.hypothesis, propOrBlank(colAnswers, "description")),
             businessContext |->
                 IF context # "" THEN context
                 ELSE "Part of " \o tableQuestion.table_name \o " entity definition"]]]

\* Reconciliation without the `|| {}` of line 432: reading a property of the
\* undefined entry of a table throws, and the catch block rethrows.
processUserAnswersRequiringEntries(questions, userAnswers) ==
    IF \E i \in 1..Len(questions) : ~hasKey(userAnswers, questions[i].table_name)
    THEN [ok |-> FALSE, annotations |-> <<>>]
    ELSE [ok |-> TRUE,
          annotations |->
             [i \in 1..Len(questions) |->
                 reconcileTable(questions[i], userAnswers[questions[i].table_name])]]

\* processUserAnswersAndGenerateAnnotations (annotationService.ts:423-452);
\* ok is FALSE when it throws.
processUserAnswersAndGenerateAnnotations(questions, userAnswers) ==
    [ok |-> TRUE,
     annotations |->
        [i \in 1..Len(questions) |->
            reconcileTable(questions[i], propOrEmpty(userAnswers, questions[i].table_name))]]

\* What the user types into a Textarea of the handler.
ValueDefinitions == "available: on the lot; sold: delivered; pending: deposit taken"
FreeTexts == {"", ValueDefinitions}

\* The values the rendered control of a question can pass to handleAnswer
\* (InteractiveAnnotationHandler.tsx:175-214, 249-288).
answerValues(question) ==
    IF question.question_type = "yes_no" THEN {"yes", "no"}
    ELSE IF question.question_type = "multiple_choice"
    THEN {question.options[k] : k \in 1..Len(question.options)}
    ELSE IF question.question_type = "free_text_definitions" THEN FreeTexts
    ELSE {}

RECURSIVE sum(_)
sum(ns) == IF ns = <<>> THEN 0 ELSE Head(ns) + sum(Tail(ns))

\* getAnsweredQuestionsCount (InteractiveAnnotationHandler.tsx:97-116) for the
\* table at index tableIndex (1-based here).
getAnsweredQuestionsCount(questions, allAnswers, tableIndex) ==
    LET currentTable == questions[tableIndex]
        tableAnswers == propOrEmpty(allAnswers, currentTable.table_name)
        tableQuestionCount == Len(currentTable.table_questions)
        answeredTableQuestions == keysLength(propOrEmpty(tableAnswers, "table_questions"))
        totalColumnQuestions ==
            sum([j \in 1..Len(currentTable.columns) |->
                    Len(currentTable.columns[j].questions_for_user)])
        answeredColumnQuestions ==
            sum([j \in 1..Len(currentTable.columns) |->
                    keysLength(propOrEmpty(tableAnswers,
                                           currentTable.columns[j].column_name))])
    IN [answered |-> answeredTableQuestions + answeredColumnQuestions,
        total |-> tableQuestionCount + totalColumnQuestions]

\* handleGenerateAnnotations receiving an interactive result (part_003:49-56,
\* 77-80): the handler is mounted with fresh state.
ReceiveInteractiveResult ==
    /\ interactiveResult = None
    /\ generatedAnnotations = <<>>
    /\ \E questions \in QuestionSets :
          interactiveResult' = Some(questions)
    /\ answers' = EmptyObject
    /\ currentTableIndex' = 0
    /\ completedAnswers' = None
    /\ UNCHANGED <<generatedAnnotations, rcInput, rcResult>>
    /\ UNCHANGED <<scVars, hVars, ctxVars, runVars, svcVars, annVars, cqVars, stVars, smVars, wzVars, agVars, srVars>>

\* The handler's render (InteractiveAnnotationHandler.tsx:54, 118, 154): it
\* reads the fields of currentTable, and throws when the index names no table;
\* the controls below exist only on a page that rendered.
handlerRenders ==
    /\ IsSome(interactiveResult)
    /\ currentTableIndex < Len(Get(interactiveResult))

\* handleAnswer (InteractiveAnnotationHandler.tsx:58-69), called by the control
\* of a question of a column of the table on display.
handleAnswer ==
    /\ handlerRenders
    /\ LET currentTable == Get(interactiveResult)[currentTableIndex + 1]
           tableName == currentTable.table_name IN
       \E j \in 1..Len(currentTable.columns) :
       \E questionIndex \in 0..(Len(currentTable.columns[j].questions_for_user) - 1) :
       \E answer \in answerValues(currentTable.columns[j].questions_for_user[questionIndex + 1]) :
          LET columnName == currentTable.columns[j].column_name
              prevTable == propOrEmpty(answers, tableName) IN
          answers' = put(answers, tableName,
                         put(prevTable, columnName,
                             put(propOrEmpty(prevTable, columnName),
                                 questionKey(questionIndex), answer)))
    /\ UNCHANGED <<interactiveResult, currentTableIndex, completedAnswers,
                   generatedAnnotations, rcInput, rcResult>>
    /\ UNCHANGED <<scVars, hVars, ctxVars, runVars, svcVars, annVars, cqVars, stVars, smVars, wzVars, agVars, srVars>>

\* handleTableQuestionAnswer (InteractiveAnnotationHandler.tsx:71-82)
handleTableQuestionAnswer ==
    /\ handlerRenders
    /\ LET currentTable == Get(interactiveResult)[currentTableIndex + 1]
           tableName == currentTable.table_name IN
       \E questionIndex \in 0..(Len(currentTable.table_questions) - 1) :
       \E answer \in answerValues(currentTable.table_questions[questionIndex + 1]) :
          LET prevTable == propOrEmpty(answers, tableName) IN
          answers' = put(answers, tableName,
                         put(prevTable, "table_questions",
                             put(propOrEmpty(prevTable, "table_questions"),
                                 questionKey(questionIndex), answer)))
    /\ UNCHANGED <<interactiveResult, currentTableIndex, completedAnswers,
                   generatedAnnotations, rcInput, rcResult>>
    /\ UNCHANGED <<scVars, hVars, ctxVars, runVars, svcVars, annVars, cqVars, stVars, smVars, wzVars, agVars, srVars>>

\* handleNext behind a Next button that is never disabled.
handleNextAlwaysEnabled ==
    /\ handlerRenders
    /\ LET questions == Get(interactiveResult)
           isLastTable == currentTableIndex = Len(questions) - 1 IN
       IF isLastTable
       THEN LET final == processUserAnswersAndGenerateAnnotations(questions, answers) IN
            /\ completedAnswers' = Some([questions |-> questions, answers |-> answers])
            /\ generatedAnnotations' = final.annotations
            /\ interactiveResult' = None
            /\ UNCHANGED currentTableIndex
       ELSE /\ currentTableIndex' = currentTableIndex + 1
            /\ UNCHANGED <<completedAnswers, generatedAnnotations, interactiveResult>>
    /\ UNCHANGED <<answers, rcInput, rcResult>>
    /\ UNCHANGED <<scVars, hVars, ctxVars, runVars, svcVars, annVars, cqVars, stVars, smVars, wzVars, agVars, srVars>>

\* The Next button (InteractiveAnnotationHandler.tsx:311-314) and handleNext
\* (84-90); on the last table onAnswersComplete is
\* handleInteractiveAnswersComplete (part_003:96-116).
handleNext ==
    /\ handlerRenders
    /\ LET questions == Get(interactiveResult)
           count == getAnsweredQuestionsCount(questions, answers, currentTableIndex + 1)
           isLastTable == currentTableIndex = Len(questions) - 1 IN
       /\ ~(count.answered < count.total)
       /\ IF isLastTable
          THEN LET final == processUserAnswersAndGenerateAnnotations(questions, answers) IN
               /\ completedAnswers' = Some([questions |-> questions, answers |-> answers])
               /\ generatedAnnotations' = final.annotations
               /\ interactiveResult' = None
               /\ UNCHANGED currentTableIndex
          ELSE /\ currentTableIndex' = currentTableIndex + 1
               /\ UNCHANGED <<completedAnswers, generatedAnnotations, interactiveResult>>
    /\ UNCHANGED <<answers, rcInput, rcResult>>
    /\ UNCHANGED <<scVars, hVars, ctxVars, runVars, svcVars, annVars, cqVars, stVars, smVars, wzVars, agVars, srVars>>

\* The Previous button (InteractiveAnnotationHandler.tsx:297-303) and
\* handlePrevious (92-96)
handlePrevious ==
    /\ handlerRenders
    /\ currentTableIndex > 0
    /\ currentTableIndex' = currentTableIndex - 1
    /\ UNCHANGED <<interactiveResult, answers, completedAnswers, generatedAnnotations,
                   rcInput, rcResult>>
    /\ UNCHANGED <<scVars, hVars, ctxVars, runVars, svcVars, annVars, cqVars, stVars, smVars, wzVars, agVars, srVars>>

\* The question sets the handler's props admit (InteractiveAnnotationResult,
\* annotationService.ts:340-346): those above and the one with no table, as
\* the edge function's reply is passed on unchecked (annotationService.ts:401-403).
HandlerQuestionSets == QuestionSets \cup {<<>>}

\* The handler is mounted (InteractiveAnnotationHandler.tsx:47-52): useState({})
\* and useState(0).
MountInteractiveHandler ==
    /\ interactiveResult = None
    /\ generatedAnnotations = <<>>
    /\ \E questions \in HandlerQuestionSets :
          interactiveResult' = Some(questions)
    /\ answers' = EmptyObject
    /\ currentTableIndex' = 0
    /\ completedAnswers' = None
    /\ UNCHANGED <<generatedAnnotations, rcInput, rcResult>>
    /\ UNCHANGED <<scVars, hVars, ctxVars, runVars, svcVars, annVars, cqVars, stVars, smVars, wzVars, agVars, srVars>>

\* --- processUserAnswersAndGenerateAnnotations on bounded inputs ---

\* A TableQuestionSet with no question at all.
EmptyTableQuestionSet ==
    [table_name |-> "vehicles",
     table_hypothesis |-> "The vehicles table appears to store vehicles information with 0 attributes including identifiers and descriptive fields.",
     table_questions |-> <<>>,
     columns |-> <<>>]

ReconcileQuestionSets == QuestionSets \cup {<<EmptyTableQuestionSet>>}

merge(f, g) == [x \in DOMAIN f \cup DOMAIN g |-> IF x \in DOMAIN g THEN g[x] ELSE f[x]]

\* Per-column entries of userAnswers: the shape reconciliation reads
\* (description, businessContext) and the shape handleAnswer writes.
ColumnAnswerShapes ==
    { EmptyObject,
      [description |-> ValueDefinitions],
      [businessContext |-> "Lifecycle state of the record"],
      [description |-> "", businessContext |-> ""],
      put(EmptyObject, questionKey(0), ValueDefinitions) }

TableDescriptionShapes ==
    { EmptyObject, [table_description |-> ""],
      [table_description |-> "Inventory of the dealership"] }

columnNames(tableQuestion) ==
    {tableQuestion.columns[j].column_name : j \in 1..Len(tableQuestion.columns)}

\* The entries userAnswers may hold for one table: a table_description or none,
\* and for its columns no entry or entries of one shape.
tableAnswersFor(tableQuestion) ==
    { merge(base, cols) :
        base \in TableDescriptionShapes,
        cols \in {EmptyObject}
                 \cup {[c \in columnNames(tableQuestion) |-> shape] :
                          shape \in ColumnAnswerShapes} }

tableNames(questions) == {questions[i].table_name : i \in 1..Len(questions)}

tableOf(questions, name) ==
    questions[CHOOSE i \in 1..Len(questions) : questions[i].table_name = name]

\* userAnswers: entries for any subset of the tables of the question set.
UserAnswersFor(questions) ==
    UNION { { f \in [S -> UNION {tableAnswersFor(questions[i]) : i \in 1..Len(questions)}] :
                \A t \in S : f[t] \in tableAnswersFor(tableOf(questions, t)) } :
            S \in SUBSET tableNames(questions) }

ReconcileCall ==
    /\ rcInput = None
    /\ \E questions \in ReconcileQuestionSets :
       \E userAnswers \in UserAnswersFor(questions) :
          rcInput' = Some([questions |-> questions, userAnswers |-> userAnswers])
    /\ UNCHANGED <<interactiveResult, answers, currentTableIndex, completedAnswers,
                   generatedAnnotations, rcResult>>
    /\ UNCHANGED <<scVars, hVars, ctxVars, runVars, svcVars, annVars, cqVars, stVars, smVars, wzVars, agVars, srVars>>

ReconcileReturn ==
    /\ IsSome(rcInput)
    /\ rcResult = None
    /\ rcResult' = Some(processUserAnswersAndGenerateAnnotations(
                            Get(rcInput).questions, Get(rcInput).userAnswers))
    /\ UNCHANGED <<interactiveResult, answers, currentTableIndex, completedAnswers,
                   generatedAnnotations, rcInput>>
    /\ UNCHANGED <<scVars, hVars, ctxVars, runVars, svcVars, annVars, cqVars, stVars, smVars, wzVars, agVars, srVars>>

InteractiveInit ==
    /\ interactiveResult = None
    /\ answers = EmptyObject
    /\ currentTableIndex = 0
    /\ completedAnswers = None
    /\ generatedAnnotations = <<>>
    /\ rcInput = None
    /\ rcResult = None

(***************************************************************************)
(* Part 6: the question generators applied column by column                *)
(***************************************************************************)

\* The two implementations of generateInteractiveQuestions.
Generators == {"annotationService", "edge"}

\* The schema a generator works on and the question sets it returns for it.
schemaOf(generator, database) ==
    IF generator = "edge" THEN edgeRealisticSchema(database)
    ELSE generateRealisticSchemaForDatabase(database)

questionsOf(generator, database) ==
    IF generator = "edge"
    THEN edgeInteractiveQuestions(database, edgeRealisticSchema(database))
    ELSE generateInteractiveQuestions(database, generateRealisticSchemaForDatabase(database))

\* One column of one table of one database is picked ...
PickColumn ==
    /\ cqInput = None
    /\ \E generator \in Generators : \E database \in Databases :
       \E t \in 1..Len(schemaOf(generator, database)) :
       \E c \in 1..Len(schemaOf(generator, database)[t].columns) :
          cqInput' = Some([generator |-> generator, database |-> database, table |-> t,
                           col |-> schemaOf(generator, database)[t].columns[c], column |-> c])
    /\ UNCHANGED cqResult
    /\ UNCHANGED <<scVars, hVars, ctxVars, runVars, svcVars, annVars, iaVars, stVars, smVars, wzVars, agVars, srVars>>

\* ... and the generator builds its ColumnQuestion (annotationService.ts:526-540,
\* part_007:208-223).
BuildColumnQuestion ==
    /\ IsSome(cqInput)
    /\ cqResult = None
    /\ LET in == Get(cqInput) IN
       cqResult' = Some(questionsOf(in.generator, in.database)[in.table].columns[in.column])
    /\ UNCHANGED cqInput
    /\ UNCHANGED <<scVars, hVars, ctxVars, runVars, svcVars, annVars, iaVars, stVars, smVars, wzVars, agVars, srVars>>

ColumnInit ==
    /\ cqInput = None
    /\ cqResult = None

(***************************************************************************)
(* Part 7: standard mode without a model call, run twice                   *)
(***************************************************************************)

\* getBusinessContext (annotationService.ts:868-875)
getBusinessContext(columnName, tableName) ==
    IF includes(columnName, "id") THEN "entity relationships and join operations"
    ELSE IF includes(columnName, "price") \/ includes(columnName, "amount")
    THEN "financial calculations and aggregations"
    ELSE IF includes(columnName, "date") \/ includes(columnName, "time")
    THEN "temporal queries and trend analysis"
    ELSE IF includes(columnName, "status") \/ includes(columnName, "type")
    THEN "conditional filtering and categorization"
    ELSE IF includes(columnName, "name") \/ includes(columnName, "title")
    THEN "text search and identification queries"
    ELSE tableName \o " entity operations and data retrieval"

\* generateSampleDataFromTables (annotationService.ts:494-511): as
\* getSampleDataFromTables, one Math.random() draw per table for rowCount.
generateSampleDataFromTables(tables, rowCounts) ==
    [i \in 1..Len(tables) |-> [tableName |-> tables[i].name, rowCount |-> rowCount(rowCounts[i])]]

\* The second generateEnhancedAnnotations of annotationService.ts (lines 851-866)
generateEnhancedAnnotationsOfSchema(database, tables, sampleData) ==
    [i \in 1..Len(tables) |->
        [tableName |-> tables[i].name,
         description |->
             "The " \o tables[i].name \o " table contains " \o ToString(Len(tables[i].columns))
             \o " columns and approximately " \o sampleRowCount(sampleData, tables[i].name)
             \o " records. " \o getTablePurpose(tables[i].name) \o " for the "
             \o database.name \o " system. This table serves as "
             \o getTableRole(tables[i].name) \o " with " \o toLowerCase(database.difficulty)
             \o "-level complexity in the Spider benchmark.",
         columns |->
             [j \in 1..Len(tables[i].columns) |->
                 LET col == tables[i].columns[j] IN
                 [name |-> col.name,
                  type |-> col.type,
                  description |->
                      col.name \o " is " \o getColumnHypothesis(col.name, col.type)
                      \o ". Data type: " \o col.type
                      \o (IF col.nullable THEN " (nullable)" ELSE " (required)") \o ".",
                  businessContext |->
                      Some("Critical for " \o toLowerCase(database.difficulty)
                           \o "-level SQL queries in Spider evaluation, particularly for "
                           \o getBusinessContext(col.name, tables[i].name))]]]]

\* The schema of a run, explored on its first MaxTables tables.
standardSchema(generator, database) ==
    SubSeq(schemaOf(generator, database), 1,
           Min(MaxTables, Len(schemaOf(generator, database))))

\* Standard mode when no model key is configured (part_007:58, 154-157;
\* annotationService.ts:494-511, 851-866): sample data, then the heuristic
\* annotations; rowCounts are the Math.random() draws of the sample data.
standardAnnotations(generator, database, rowCounts) ==
    LET tables == standardSchema(generator, database) IN
    IF generator = "edge"
    THEN edgeEnhancedAnnotations(database, tables, getSampleDataFromTables(tables, rowCounts))
    ELSE generateEnhancedAnnotationsOfSchema(database, tables,
                                             generateSampleDataFromTables(tables, rowCounts))

\* The user picks a database ...
ChooseStandardDatabase ==
    /\ stInput = None
    /\ \E generator \in Generators, database \in Databases :
          stInput' = Some([generator |-> generator, database |-> database])
    /\ UNCHANGED stOutputs
    /\ UNCHANGED <<scVars, hVars, ctxVars, runVars, svcVars, annVars, iaVars, cqVars, smVars, wzVars, agVars, srVars>>

\* ... and generates standard annotations for it, a first and a second time.
RunStandard ==
    /\ IsSome(stInput)
    /\ Len(stOutputs) < 2
    /\ LET in == Get(stInput) IN
       \E rowCounts \in RowCountDraws(standardSchema(in.generator, in.database)) :
          stOutputs' = Append(stOutputs,
                              standardAnnotations(in.generator, in.database, rowCounts))
    /\ UNCHANGED stInput
    /\ UNCHANGED <<scVars, hVars, ctxVars, runVars, svcVars, annVars, iaVars, cqVars, smVars, wzVars, agVars, srVars>>

StandardInit ==
    /\ stInput = None
    /\ stOutputs = <<>>

(***************************************************************************)
(* Part 8: the sample rows of the generate-annotations edge function       *)
(***************************************************************************)

DefaultRowLimit == 5
SampleRowCap == 10

\* The values of options.rowLimit explored: absent, and the numbers around 0,
\* the default and the cap, plus the maximum the form field allows.
MaxRowLimit == SampleRowCap + 2
FormMaxRowLimit == 1000
RowLimits == {None} \cup {Some(n) : n \in (-2..MaxRowLimit) \cup {FormMaxRowLimit}}

\* options?.rowLimit || 5 (part_007:33)
effectiveRowLimit(requested) ==
    IF requested = None \/ Get(requested) = 0 THEN DefaultRowLimit ELSE Get(requested)

\* generateSampleData (part_007:269-285): the loop runs for
\* i = 0 .. Math.min(rowLimit, 10) - 1; a row is kept here as its number i + 1,
\* the value the loop gives to its id columns.
generateSampleData(table, rowLimit) ==
    [i \in 1..Max(0, Min(rowLimit, SampleRowCap)) |-> i]

\* generateSampleData without the caps of lines 135 and 271.
generateSampleDataUncapped(table, rowLimit) ==
    [i \in 1..Max(0, rowLimit) |-> i]

\* getSampleDataFromTables (part_007:127-144), tableName and sampleRows
sampleRowsOfTables(tables, rowLimit) ==
    [t \in 1..Len(tables) |->
        [tableName |-> tables[t].name,
         sampleRows |-> generateSampleData(tables[t], Min(rowLimit, SampleRowCap))]]

\* A request reaches the edge function (part_007:21-36) ...
RequestSamples ==
    /\ smRequest = None
    /\ \E database \in Databases, processType \in ProcessTypes, requested \in RowLimits :
          smRequest' = Some([database |-> database, processType |-> processType,
                             rowLimit |-> requested])
    /\ UNCHANGED smData
    /\ UNCHANGED <<scVars, hVars, ctxVars, runVars, svcVars, annVars, iaVars, cqVars, stVars, wzVars, agVars, srVars>>

\* ... and its sample data are fetched (part_007:58).
FetchSamples ==
    /\ IsSome(smRequest)
    /\ smData = None
    /\ smData' = Some(sampleRowsOfTables(edgeRealisticSchema(Get(smRequest).database),
                                         effectiveRowLimit(Get(smRequest).rowLimit)))
    /\ UNCHANGED smRequest
    /\ UNCHANGED <<scVars, hVars, ctxVars, runVars, svcVars, annVars, iaVars, cqVars, stVars, wzVars, agVars, srVars>>

SampleInit ==
    /\ smRequest = None
    /\ smData = None

(***************************************************************************)
(* Part 9: the wizard (EvaluationContext, Index page and the step          *)
(* components), from its initial state.  The states in which SpecEval      *)
(* starts are the step-4 states of this wizard.                            *)
(***************************************************************************)

\* initialState (EvaluationContext.tsx:32-38)
initialState ==
    [selectedDatabase |-> None, customPrompt |-> "", annotations |-> {},
     evaluationResults |-> None, currentStep |-> 1]

\* Runs of unmounted runners that may still be in flight at one time.
MaxOrphanRuns == 1

\* Prompts that enable the Continue button of AnnotationPromptCreator
\* (at least 50 characters after trim, HeroSection.tsx:295).
Prompts == {"Describe every table and column of the schema for SQL generation.",
            "Annotate each column with its business meaning, units and joins."}

\* canProceedToStep (EvaluationContext.tsx:60-79)
canProceedToStep(st, step) ==
    IF step = 1 THEN TRUE
    ELSE IF step = 2 THEN IsSome(st.selectedDatabase)
    ELSE IF step = 3 THEN IsSome(st.selectedDatabase) /\ st.customPrompt # ""
    ELSE IF step = 4
    THEN IsSome(st.selectedDatabase) /\ st.customPrompt # "" /\ st.annotations # {}
    ELSE IF step = 5 THEN IsSome(st.selectedDatabase) /\ IsSome(st.evaluationResults)
    ELSE FALSE

\* Index.tsx:49-80: which step component the page renders.
rendered(st, selector, step) == ~selector /\ st.currentStep = step
overviewRendered(st, selector) == ~selector /\ st.currentStep \notin 2..5

\* HeroSection's onStartEvaluation (Index.tsx:40).  The step component on the
\* page is unmounted: its local state is lost, a run it started goes on.
WzOpenSelector ==
    /\ ~wzSelector
    /\ wzSelector' = TRUE
    /\ wzOrphanRuns + wzMountedRun <= MaxOrphanRuns
    /\ wzOrphanRuns' = wzOrphanRuns + wzMountedRun
    /\ wzMountedRun' = 0
    /\ wzGenerated' = {}
    /\ wzResults' = None
    /\ UNCHANGED <<wzState, wzLateResult>>
    /\ UNCHANGED <<scVars, hVars, ctxVars, runVars, svcVars, annVars, iaVars, cqVars, stVars, smVars, agVars, srVars>>

\* DatabaseSelector's onSelect (Index.tsx:53-57)
WzSelectDatabase ==
    /\ wzSelector
    /\ \E db \in Databases :
          wzState' = [wzState EXCEPT !.selectedDatabase = Some(db.id), !.currentStep = 2]
    /\ wzSelector' = FALSE
    /\ UNCHANGED <<wzGenerated, wzResults, wzMountedRun, wzOrphanRuns, wzLateResult>>
    /\ UNCHANGED <<scVars, hVars, ctxVars, runVars, svcVars, annVars, iaVars, cqVars, stVars, smVars, agVars, srVars>>

\* AnnotationPromptCreator.handleContinue (HeroSection.tsx:288-293)
WzPromptContinue ==
    /\ rendered(wzState, wzSelector, 2)
    /\ \E text \in Prompts :
          wzState' = [wzState EXCEPT !.customPrompt = text, !.currentStep = 3]
    /\ wzGenerated' = {}
    /\ UNCHANGED <<wzSelector, wzResults, wzMountedRun, wzOrphanRuns, wzLateResult>>
    /\ UNCHANGED <<scVars, hVars, ctxVars, runVars, svcVars, annVars, iaVars, cqVars, stVars, smVars, agVars, srVars>>

\* AnnotationGenerator: annotations have been generated (part_003:49-94, 108)
WzGenerate ==
    /\ rendered(wzState, wzSelector, 3)
    /\ wzGenerated = {}
    /\ IsSome(wzState.selectedDatabase) /\ wzState.customPrompt # ""
    /\ wzGenerated' = {"students"}
    /\ UNCHANGED <<wzState, wzSelector, wzResults, wzMountedRun, wzOrphanRuns, wzLateResult>>
    /\ UNCHANGED <<scVars, hVars, ctxVars, runVars, svcVars, annVars, iaVars, cqVars, stVars, smVars, agVars, srVars>>

\* AnnotationGenerator.handleContinue (part_003:139-147), rendered with the
\* generated annotations (line 299)
WzAnnotationsContinue ==
    /\ rendered(wzState, wzSelector, 3)
    /\ wzGenerated # {}
    /\ wzState' = [wzState EXCEPT !.annotations = wzGenerated, !.currentStep = 4]
    /\ wzGenerated' = {}
    /\ wzResults' = None
    /\ UNCHANGED <<wzSelector, wzMountedRun, wzOrphanRuns, wzLateResult>>
    /\ UNCHANGED <<scVars, hVars, ctxVars, runVars, svcVars, annVars, iaVars, cqVars, stVars, smVars, agVars, srVars>>

\* handleRunEvaluation of the mounted runner up to its first await
\* (part_000:65-74); the button is rendered while there is no result and no
\* run, and enabled with valid inputs.
WzRunStart ==
    /\ rendered(wzState, wzSelector, 4)
    /\ wzResults = None
    /\ wzMountedRun = 0
    /\ IsSome(wzState.selectedDatabase) /\ wzState.annotations # {}
    /\ wzState.customPrompt # ""
    /\ wzMountedRun' = 1
    /\ UNCHANGED <<wzState, wzSelector, wzGenerated, wzResults, wzOrphanRuns, wzLateResult>>
    /\ UNCHANGED <<scVars, hVars, ctxVars, runVars, svcVars, annVars, iaVars, cqVars, stVars, smVars, agVars, srVars>>

\* The run of the mounted runner ends (part_000:86-101): with results, stored
\* in the runner and in the context, or with an error.
WzRunComplete ==
    /\ wzMountedRun = 1
    /\ wzMountedRun' = 0
    /\ \E ok \in BOOLEAN :
          IF ok
          THEN /\ wzResults' = Some("report")
               /\ wzState' = [wzState EXCEPT !.evaluationResults = Some("report")]
          ELSE UNCHANGED <<wzResults, wzState>>
    /\ UNCHANGED <<wzSelector, wzGenerated, wzOrphanRuns, wzLateResult>>
    /\ UNCHANGED <<scVars, hVars, ctxVars, runVars, svcVars, annVars, iaVars, cqVars, stVars, smVars, agVars, srVars>>

\* A run whose runner was unmounted ends: setResults is dropped,
\* setEvaluationResults (part_000:95) still writes to the context.
WzOrphanRunComplete ==
    /\ wzOrphanRuns > 0
    /\ wzOrphanRuns' = wzOrphanRuns - 1
    /\ \E ok \in BOOLEAN :
          IF ok
          THEN /\ wzState' = [wzState EXCEPT !.evaluationResults = Some("report")]
               /\ wzLateResult' = TRUE
          ELSE UNCHANGED <<wzState, wzLateResult>>
    /\ UNCHANGED <<wzSelector, wzGenerated, wzResults, wzMountedRun>>
    /\ UNCHANGED <<scVars, hVars, ctxVars, runVars, svcVars, annVars, iaVars, cqVars, stVars, smVars, agVars, srVars>>

\* SpiderEvaluationRunner.handleContinue (part_000:104-108)
WzRunnerContinue ==
    /\ rendered(wzState, wzSelector, 4)
    /\ IsSome(wzResults)
    /\ wzState' = [wzState EXCEPT !.currentStep = 5]
    /\ wzResults' = None
    /\ UNCHANGED <<wzSelector, wzGenerated, wzMountedRun, wzOrphanRuns, wzLateResult>>
    /\ UNCHANGED <<scVars, hVars, ctxVars, runVars, svcVars, annVars, iaVars, cqVars, stVars, smVars, agVars, srVars>>

\* ResultsSaver.handleStartNewRun (part_001:113-115): resetEvaluation
WzReset ==
    /\ rendered(wzState, wzSelector, 5)
    /\ wzState' = initialState
    /\ UNCHANGED <<wzSelector, wzGenerated, wzResults, wzMountedRun, wzOrphanRuns,
                   wzLateResult>>
    /\ UNCHANGED <<scVars, hVars, ctxVars, runVars, svcVars, annVars, iaVars, cqVars, stVars, smVars, agVars, srVars>>

\* ProcessOverview's onStartStep (Index.tsx:89-103)
WzStartStep ==
    /\ overviewRendered(wzState, wzSelector)
    /\ \E step \in 1..5 :
          IF step = 1
          THEN /\ wzSelector' = TRUE
               /\ UNCHANGED wzState
          ELSE /\ UNCHANGED wzSelector
               /\ IF step = 2 /\ IsSome(wzState.selectedDatabase)
                  THEN wzState' = [wzState EXCEPT !.currentStep = 2]
                  ELSE IF /\ step = 3 /\ IsSome(wzState.selectedDatabase)
                          /\ wzState.customPrompt # ""
                  THEN wzState' = [wzState EXCEPT !.currentStep = 3]
                  ELSE IF /\ step = 4 /\ IsSome(wzState.selectedDatabase)
                          /\ wzState.annotations # {}
                  THEN wzState' = [wzState EXCEPT !.currentStep = 4]
                  ELSE IF step = 5 /\ IsSome(wzState.evaluationResults)
                  THEN wzState' = [wzState EXCEPT !.currentStep = 5]
                  ELSE UNCHANGED wzState
    /\ UNCHANGED <<wzGenerated, wzResults, wzMountedRun, wzOrphanRuns, wzLateResult>>
    /\ UNCHANGED <<scVars, hVars, ctxVars, runVars, svcVars, annVars, iaVars, cqVars, stVars, smVars, agVars, srVars>>

WizardInit ==
    /\ wzState = initialState
    /\ wzSelector = FALSE
    /\ wzGenerated = {}
    /\ wzResults = None
    /\ wzMountedRun = 0
    /\ wzOrphanRuns = 0
    /\ wzLateResult = FALSE

(***************************************************************************)
(* Part 10: AnnotationGenerator.handleGenerateAnnotations and its progress *)
(* timer (src/components/AnnotationGenerator.tsx:31-59, part_003:49-94).   *)
(***************************************************************************)

\* Interval timers alive at one time.
MaxTimers == 2

ProgressStep == 10
ProgressCeiling == 90
ProgressDone == 100

\* The click on Generate up to the await (AnnotationGenerator.tsx:31-47): the
\* button is rendered while nothing is being generated.
AgStart ==
    /\ ~agIsGenerating
    /\ agPc = "idle"
    /\ agTimers < MaxTimers
    /\ agIsGenerating' = TRUE
    /\ agProgress' = 0
    /\ agError' = FALSE
    /\ agTimers' = agTimers + 1
    /\ agPc' = "awaiting"
    /\ UNCHANGED <<scVars, hVars, ctxVars, runVars, svcVars, annVars, iaVars, cqVars, stVars, smVars, wzVars, srVars>>

\* An interval fires (AnnotationGenerator.tsx:40-42)
AgTimerFires ==
    /\ agTimers > 0
    /\ agProgress' = Min(agProgress + ProgressStep, ProgressCeiling)
    /\ UNCHANGED <<agIsGenerating, agTimers, agPc, agError>>
    /\ UNCHANGED <<scVars, hVars, ctxVars, runVars, svcVars, annVars, iaVars, cqVars, stVars, smVars, wzVars, srVars>>

\* generateDatabaseAnnotations resolves (AnnotationGenerator.tsx:49-51, 55-57)
AgResolve ==
    /\ agPc = "awaiting"
    /\ agTimers' = agTimers - 1
    /\ agProgress' = ProgressDone
    /\ agIsGenerating' = FALSE
    /\ agPc' = "idle"
    /\ UNCHANGED agError
    /\ UNCHANGED <<scVars, hVars, ctxVars, runVars, svcVars, annVars, iaVars, cqVars, stVars, smVars, wzVars, srVars>>

\* generateDatabaseAnnotations rejects (annotationService.ts:88-96, the schema
\* cannot be fetched): catch and finally (AnnotationGenerator.tsx:53-57).
AgReject ==
    /\ agPc = "awaiting"
    /\ agError' = TRUE
    /\ agIsGenerating' = FALSE
    /\ agPc' = "idle"
    /\ UNCHANGED <<agTimers, agProgress>>
    /\ UNCHANGED <<scVars, hVars, ctxVars, runVars, svcVars, annVars, iaVars, cqVars, stVars, smVars, wzVars, srVars>>

GeneratorInit ==
    /\ agIsGenerating = FALSE
    /\ agProgress = 0
    /\ agTimers = 0
    /\ agPc = "idle"
    /\ agError = FALSE

(***************************************************************************)
(* Part 11: the saved-runs store (src/lib/savedRunsService.ts) over        *)
(* localStorage.                                                           *)
(***************************************************************************)

\* Milliseconds the clock may reach and saves that may be made.
MaxTime == 2
MaxSaves == 3

\* Math.random().toString(36).substr(2, 9) (savedRunsService.ts:22)
RunIdSuffixes == {"k3j9x2m1q", "a8f0z7c4d"}

\* `run_${Date.now()}_${...}` (savedRunsService.ts:22)
runIdOf(now, suffix) == "run_" \o ToString(now) \o "_" \o suffix

RunIds == { runIdOf(now, suffix) : now \in 0..MaxTime, suffix \in RunIdSuffixes }

\* JSON.parse(localStorage.getItem(STORAGE_KEY) || '[]')
\* (savedRunsService.ts:36, 48, 60)
storedRuns(storage) == IF IsSome(storage) THEN Get(storage) ELSE <<>>

\* new Date(b.created_at || b.timestamp).getTime() (savedRunsService.ts:50)
timeOf(run) == IF run.created_at # None THEN Get(run.created_at) ELSE run.timestamp

\* Array.prototype.sort with the comparator of savedRunsService.ts:49-51: a
\* stable sort, later times first.
RECURSIVE insertNewestFirst(_, _)
insertNewestFirst(sorted, run) ==
    IF sorted = <<>> THEN <<run>>
    ELSE IF timeOf(run) > timeOf(Head(sorted)) THEN <<run>> \o sorted
    ELSE <<Head(sorted)>> \o insertNewestFirst(Tail(sorted), run)

RECURSIVE sortNewestFirst(_)
sortNewestFirst(runs) ==
    IF runs = <<>> THEN <<>>
    ELSE insertNewestFirst(sortNewestFirst(SubSeq(runs, 1, Len(runs) - 1)),
                           runs[Len(runs)])

\* getSavedRuns without its sort
getSavedRunsUnsorted(storage) == storedRuns(storage)

\* getSavedRuns (savedRunsService.ts:46-56)
getSavedRuns(storage) == sortNewestFirst(storedRuns(storage))

\* deleteEvaluationRun's filter (savedRunsService.ts:61)
filteredRuns(existingRuns, runId) ==
    LET keeps(run) == run.run_id # runId IN SelectSeq(existingRuns, keeps)

\* The clock advances.
SrClockTicks ==
    /\ srClock < MaxTime
    /\ srClock' = srClock + 1
    /\ UNCHANGED <<srStorage, srSaved, srDeleted, srLastOp>>
    /\ UNCHANGED <<scVars, hVars, ctxVars, runVars, svcVars, annVars, iaVars, cqVars, stVars, smVars, wzVars, agVars>>

\* saveEvaluationRun (savedRunsService.ts:16-44) with localStorage.setItem
\* succeeding.  seq is the ordinal of the save; it is not stored.
saveEvaluationRun ==
    /\ Len(srSaved) < MaxSaves
    /\ IsSome(selectedDatabase)
    /\ \E suffix \in RunIdSuffixes :
          LET runId == runIdOf(srClock, suffix)
              savedRun == [run_id |-> runId,
                           timestamp |-> srClock,
                           database_name |-> Get(selectedDatabase).name,
                           created_at |-> Some(srClock),
                           seq |-> Len(srSaved) + 1]
          IN /\ srStorage' = Some(Append(storedRuns(srStorage), savedRun))
             /\ srSaved' = Append(srSaved, savedRun)
             /\ srLastOp' = [op |-> "save", id |-> runId]
    /\ UNCHANGED <<srClock, srDeleted>>
    /\ UNCHANGED <<scVars, hVars, ctxVars, runVars, svcVars, annVars, iaVars, cqVars, stVars, smVars, wzVars, agVars>>

\* saveEvaluationRun with localStorage.setItem throwing (quota):
\* 'Failed to save evaluation run' (savedRunsService.ts:40-43)
saveEvaluationRunFails ==
    /\ Len(srSaved) < MaxSaves
    /\ IsSome(selectedDatabase)
    /\ srLastOp' = [op |-> "saveFailed", id |-> ""]
    /\ UNCHANGED <<srStorage, srClock, srSaved, srDeleted>>
    /\ UNCHANGED <<scVars, hVars, ctxVars, runVars, svcVars, annVars, iaVars, cqVars, stVars, smVars, wzVars, agVars>>

\* deleteEvaluationRun (savedRunsService.ts:58-67)
deleteEvaluationRun ==
    /\ \E runId \in RunIds :
          /\ srStorage' = Some(filteredRuns(storedRuns(srStorage), runId))
          /\ srDeleted' = srDeleted \cup
                 { n \in 1..Len(srSaved) : srSaved[n].run_id = runId }
          /\ srLastOp' = [op |-> "delete", id |-> runId]
    /\ UNCHANGED <<srClock, srSaved>>
    /\ UNCHANGED <<scVars, hVars, ctxVars, runVars, svcVars, annVars, iaVars, cqVars, stVars, smVars, wzVars, agVars>>

SavedRunsInit ==
    /\ srStorage = None
    /\ srClock = 0
    /\ srSaved = <<>>
    /\ srDeleted = {}
    /\ srLastOp = [op |-> "none", id |-> ""]

(***************************************************************************)
(* Specifications                                                          *)
(***************************************************************************)

Init ==
    /\ ScorerInit /\ HandlerInit /\ EvalInit /\ AnnotateInit /\ InteractiveInit
    /\ ColumnInit /\ StandardInit /\ SampleInit /\ WizardInit
    /\ GeneratorInit /\ SavedRunsInit

ScorerNext == ServeRequest
HandlerNext == HandlerStart \/ HandlerQuestion \/ ConnectionLost \/ HandlerFinish
EvalNext ==
    \/ RunnerStart
    \/ RunnerPhase
    \/ RunnerCallService
    \/ SvcPhase
    \/ RunnerComplete
    \/ OpenDatabaseSelector
AnnotateNext ==
    \/ GenerateStart
    \/ GenerateCallModel
    \/ GenerateCatch
    \/ EdgeServe
    \/ EdgeCallModel
    \/ ClientReceive

SpecScorer == Init /\ [][ScorerNext]_vars
SpecHandler == Init /\ [][HandlerNext]_vars

\* The handler with external calls that may never return.  Every step of the
\* handler that is enabled is eventually taken: the event loop resumes an
\* async function whose awaited promise has settled.
HandlerLiveNext == HandlerNext \/ ExternalCallHangs
SpecHandlerLive ==
    /\ Init /\ [][HandlerLiveNext]_vars
    /\ WF_vars(HandlerStart) /\ WF_vars(HandlerQuestion) /\ WF_vars(HandlerFinish)
SpecEval == Init /\ [][EvalNext]_vars
SpecAnnotate == Init /\ [][AnnotateNext]_vars

InteractiveNext ==
    \/ ReceiveInteractiveResult
    \/ handleAnswer
    \/ handleTableQuestionAnswer
    \/ handleNext
    \/ handlePrevious
SpecInteractive == Init /\ [][InteractiveNext]_vars

NavigateNext ==
    \/ MountInteractiveHandler
    \/ handleAnswer
    \/ handleTableQuestionAnswer
    \/ handleNext
    \/ handlePrevious
SpecNavigate == Init /\ [][NavigateNext]_vars

ReconcileNext == ReconcileCall \/ ReconcileReturn
SpecReconcile == Init /\ [][ReconcileNext]_vars

ColumnNext == PickColumn \/ BuildColumnQuestion
SpecColumns == Init /\ [][ColumnNext]_vars

StandardNext == ChooseStandardDatabase \/ RunStandard
SpecStandard == Init /\ [][StandardNext]_vars

SampleNext == RequestSamples \/ FetchSamples
SpecSamples == Init /\ [][SampleNext]_vars

WizardNext ==
    \/ WzOpenSelector
    \/ WzSelectDatabase
    \/ WzPromptContinue
    \/ WzGenerate
    \/ WzAnnotationsContinue
    \/ WzRunStart
    \/ WzRunComplete
    \/ WzOrphanRunComplete
    \/ WzRunnerContinue
    \/ WzReset
    \/ WzStartStep
SpecWizard == Init /\ [][WizardNext]_vars

GeneratorNext == AgStart \/ AgTimerFires \/ AgResolve \/ AgReject
SpecGenerator == Init /\ [][GeneratorNext]_vars

SavedRunsNext ==
    \/ SrClockTicks
    \/ saveEvaluationRun
    \/ saveEvaluationRunFails
    \/ deleteEvaluationRun
SpecSavedRuns == Init /\ [][SavedRunsNext]_vars

Next ==
    \/ ScorerNext \/ HandlerNext \/ EvalNext \/ AnnotateNext \/ InteractiveNext
    \/ NavigateNext \/ ReconcileNext \/ ColumnNext \/ StandardNext \/ SampleNext \/ WizardNext
    \/ GeneratorNext \/ SavedRunsNext
Spec == Init /\ [][Next]_vars

(***************************************************************************)
(* Claims                                                                  *)
(***************************************************************************)

\* C1: in every report returned by runSpiderEvaluation, each of the three variants
\* has 0 <= accuracy <= 100 and a correct-query count that is at most the report's
\* total-query count.
C1_AccuracyAndCountWithinTotal ==
    IsSome(svcResult) =>
        LET r == Get(svcResult)
        IN \A i \in 1..Len(r.schemaResults) :
              /\ 0 <= r.schemaResults[i].accuracy
              /\ r.schemaResults[i].accuracy <= Percent(100)
              /\ r.schemaResults[i].correctQueries <= r.totalQueries

\* The first variant, in the order raw, hypothesis, annotated, whose verdict is
\* correct; None when no verdict is.
firstCorrectVariant(q) ==
    LET ok == {i \in 1..Len(Variants) : q.schemaResults[Variants[i]].is_correct}
    IN IF ok = {} THEN None
       ELSE Some(Variants[CHOOSE i \in ok : \A j \in ok : i <= j])

\* C2: for every per-question record of the report, bestVariant is the first
\* correct variant in the order raw, hypothesis, annotated, and is unset when no
\* variant is correct.
C2_BestVariantIsFirstCorrect ==
    IsSome(svcResult) =>
        \A i \in 1..Len(Get(svcResult).sqlQueries) :
            LET q == Get(svcResult).sqlQueries[i]
            IN q.bestPerformingSchema = firstCorrectVariant(q)

\* A served request for which compareResults was called (reference-result mode).
scCompared ==
    /\ IsSome(scResponse)
    /\ Get(scResponse).status = 200
    /\ Get(scRequest).evaluationType \in {"accuracy", "both"}
    /\ IsSome(Get(scRequest).expectedResult)
    /\ Get(scRequest).executionResult.success

scActual == Get(Get(scRequest).executionResult.data)
scExpected == Get(Get(scRequest).expectedResult)
scAccuracy == Get(Get(scResponse).evaluation.accuracy)

\* Structural equality of two rows' field maps: the same keys with the same values.
structurallyEqual(r1, r2) ==
    {r1[i] : i \in DOMAIN r1} = {r2[i] : i \in DOMAIN r2}

\* C3 as claimed: exactMatch if and only if the row counts are equal and every row
\* of the actual result is structurally equal to the row at the same index of the
\* expected result, two empty result sets included.
C3_ExactMatchIffStructurallyEqual ==
    scCompared =>
        (scAccuracy.exactMatch <=>
            /\ Len(scActual) = Len(scExpected)
            /\ \A i \in 1..Len(scActual) : structurallyEqual(scActual[i], scExpected[i]))

\* C3 as amended: exactMatch if and only if the row counts are equal and greater
\* than zero and every row of the actual result has the same fields, in the same
\* order and with the same values, as the row at the same index of the expected
\* result (the rows are compared by their JSON serialization).
C3_ExactMatchIffSameRowsNonEmpty ==
    scCompared =>
        (scAccuracy.exactMatch <=>
            /\ Len(scActual) = Len(scExpected)
            /\ Len(scActual) > 0
            /\ \A i \in 1..Len(scActual) : scActual[i] = scExpected[i])

\* C3 witness: a two-row result scored as an exact match.
C3_Witness ==
    /\ scCompared
    /\ Len(scActual) = 2
    /\ scAccuracy.exactMatch
    /\ scAccuracy.matches = 2

\* The two result sets hold the same rows, each as often, in a different order.
sameRowsReordered(a, e) ==
    /\ Len(a) = Len(e)
    /\ a # e
    /\ \A r \in Rows :
          Cardinality({i \in 1..Len(a) : a[i] = r})
            = Cardinality({i \in 1..Len(e) : e[i] = r})

firstMismatch(a, e) ==
    CHOOSE i \in 1..Len(a) : a[i] # e[i] /\ \A j \in 1..(i - 1) : a[j] = e[j]

\* C4: when the actual and the expected result hold the same rows in a different
\* order, the scorer reports no exact match and its first mismatch reason names the
\* first mismatching row together with both serialized rows.
C4_ReorderedRowsAreIncorrect ==
    (scCompared /\ sameRowsReordered(scActual, scExpected)) =>
        LET p == firstMismatch(scActual, scExpected)
        IN /\ ~scAccuracy.exactMatch
           /\ Len(scAccuracy.differences) >= 1
           /\ scAccuracy.differences[1] =
                 "Row " \o ToString(p) \o ": expected " \o JSONstringify(scExpected[p])
                 \o ", got " \o JSONstringify(scActual[p])

\* C4 witness: expected [{a:1},{a:2}] against actual [{a:2},{a:1}].
C4_Witness ==
    /\ scCompared
    /\ scExpected = << <<Field("a", 1)>>, <<Field("a", 2)>> >>
    /\ scActual = << <<Field("a", 2)>>, <<Field("a", 1)>> >>
    /\ ~scAccuracy.exactMatch
    /\ scAccuracy.differences[1] = "Row 1: expected {\"a\":1}, got {\"a\":2}"

\* C5: an evaluation over an empty question set answers without error, with
\* totalQuestions = 0 and a success rate of 0, never NaN.
C5_EmptyBenchmarkRateIsZero ==
    (hPc = "done" /\ hConnectOk /\ hQuestions = <<>>) =>
        /\ Get(hResponse).status = 200
        /\ Get(hResponse).totalQuestions = 0
        /\ Get(hResponse).executionSuccessRate.kind = "number"
        /\ Get(hResponse).executionSuccessRate.num = 0

\* Whether generation or execution failed for a consumed question.
questionFailed(o) == o.gen = "throw" \/ o.exec \in {"err", "throw"}

\* C6: a question whose query generation or execution fails is recorded as not
\* correct with a failure reason, the remaining questions are still evaluated, and
\* the number of recorded results equals the number of benchmark questions.
C6_EveryQuestionRecorded ==
    (hConnectOk /\ hPc \in {"loop", "done"}) =>
        /\ Len(hResults) = hIdx
        /\ Len(hOutcomes) = hIdx
        /\ \A i \in 1..hIdx :
              /\ hResults[i].question = hQuestions[i]
              /\ questionFailed(hOutcomes[i]) =>
                    (~hResults[i].executionSuccess /\ IsSome(hResults[i].error))
        /\ hPc = "done" =>
              /\ Get(hResponse).status = 200
              /\ Get(hResponse).results = hResults
              /\ Len(Get(hResponse).results) = Len(hQuestions)
              /\ Get(hResponse).totalQuestions = Len(hQuestions)

\* C6 witness: generation failed for the first question and a later question was
\* still evaluated successfully.
C6_Witness ==
    /\ hPc = "done"
    /\ Get(hResponse).status = 200
    /\ Len(hQuestions) >= 2
    /\ hOutcomes[1].gen = "throw"
    /\ ~hResults[1].executionSuccess
    /\ hResults[2].executionSuccess

IsPrefix(s, t) == Len(s) <= Len(t) /\ s = SubSeq(t, 1, Len(s))

variantRank(v) == CHOOSE i \in 1..Len(Variants) : Variants[i] = v

\* C8: verdicts are produced variant by variant: every raw verdict before any
\* hypothesis verdict, and every hypothesis verdict before any annotated verdict.
C8_VerdictsVariantByVariant ==
    \A i, j \in 1..Len(verdictLog) :
        i < j => variantRank(verdictLog[i].variant) <= variantRank(verdictLog[j].variant)

C10_NoPhaseAfterCancel ==
    [][showDatabaseSelector => (svcLog' = svcLog /\ runI' = runI)]_vars

\* The text of a failure answer names the phase when one of its two message
\* fields is that name.
carriesPhase(response, phase) == response.error = phase \/ response.details = phase

\* C11: a failure of the connection or of its credentials ends the run before any
\* question is evaluated (no result is recorded or reported), and the error
\* answered to the caller carries the name of the phase that failed.
C11_ConnectFailureAbortsWithPhase ==
    IsSome(hFailedPhase) =>
        /\ hPc = "done"
        /\ hIdx = 0
        /\ hResults = <<>>
        /\ Get(hResponse).status = 500
        /\ carriesPhase(Get(hResponse), Get(hFailedPhase))

\* C11, first half alone: the failure ends the run with a 500 answer and no
\* question evaluated.
C11_ConnectFailureAborts ==
    IsSome(hFailedPhase) =>
        /\ hPc = "done"
        /\ hIdx = 0
        /\ hResults = <<>>
        /\ hOutcomes = <<>>
        /\ Get(hResponse).status = 500

\* The schema fetch of the running call failed on missing or rejected credentials.
credentialFailure ==
    /\ IsSome(annRequest)
    /\ Get(annRequest).path = "direct"
    /\ Len(annSchemaErrors) >= 1

\* C12: when the schema fetch fails because the credentials are missing or
\* rejected, generation fetches the schema once only, and the error that reaches
\* the caller is the message of that credential error, unchanged.
C12_CredentialErrorVerbatimNoRetry ==
    credentialFailure =>
        /\ annSchemaFetches = 1
        /\ annPc = "done" =>
              /\ Get(annOutcome).kind = "error"
              /\ Get(annOutcome).message = annSchemaErrors[1]

\* The model call of the running call failed, and nothing failed after it: the
\* last error caught is the error of the model call.
onlyModelFailed ==
    /\ IsSome(annModel)
    /\ modelFailed(Get(annModel))
    /\ annCaught = Some(modelErrorMessage(Get(annModel)))

C13_WitnessDirect ==
    /\ annPc = "done"
    /\ annModel = Some("noCandidates")
    /\ Get(annRequest).path = "direct"
    /\ Len(Get(annOutcome).annotations) = 2

\* The accuracies generateSchemaResults computes for the draws d before
\* Math.max puts its floor under them (the cap of 95 stays).
accuracyBeforeFloor(difficulty, d) ==
    LET rawAccuracy == calculateAccuracy(difficulty, d.base) - (Percent(10) + d.raw * 15)
    IN << Min(rawAccuracy, Percent(95)),
          Min(rawAccuracy + (Percent(8) + d.hyp * 12), Percent(95)),
          Min(rawAccuracy + (Percent(15) + d.ann * 20), Percent(95)) >>

\* C14: a returned report has one accuracy entry per attempted variant, in the
\* order raw, hypothesis, annotated, and each accuracy is the measured value: a low
\* (zero) accuracy is reported as it is, never floored to a positive value.
C14_EntryPerVariantNotFloored ==
    IsSome(svcResult) =>
        LET report == Get(svcResult)
            measured == accuracyBeforeFloor(report.difficulty, Get(svcDraws)) IN
        /\ Len(report.schemaResults) = Len(Variants)
        /\ \A i \in 1..Len(Variants) :
              /\ report.schemaResults[i].schemaType = Variants[i]
              /\ report.schemaResults[i].accuracy = measured[i]

\* C14, the part that holds: one entry per variant, in order, each with an
\* accuracy and none with an error.
C14_EntryPerVariant ==
    IsSome(svcResult) =>
        /\ Len(Get(svcResult).schemaResults) = Len(Variants)
        /\ \A i \in 1..Len(Variants) :
              /\ Get(svcResult).schemaResults[i].schemaType = Variants[i]
              /\ Get(svcResult).schemaResults[i].accuracy >= Percent(10)

\* C15: the improvement reported for hypothesis is hypothesis accuracy minus raw
\* accuracy, and the improvement reported for annotated is annotated accuracy
\* minus raw accuracy: signed, and not replaced by the gain of the best variant.
\* It is checked on both places that report it: the panel of the runner and the
\* saved run.
C15_DeltasAreDifferencesToRaw ==
    IsSome(svcResult) =>
        LET rs == Get(svcResult).schemaResults IN
        /\ improvementOverRaw(rs, 2) = rs[2].accuracy - rs[1].accuracy
        /\ improvementOverRaw(rs, 3) = rs[3].accuracy - rs[1].accuracy
        /\ annotationImpact(Get(svcResult)).improvement = rs[3].accuracy - rs[1].accuracy

\* C15, the panel of the runner alone: both lines are differences to raw, and the
\* text carries '+' exactly for a positive difference.
C15_PanelDeltasAreDifferencesToRaw ==
    IsSome(results) =>
        LET rs == Get(results).schemaResults IN
        \A i \in 2..3 :
            /\ improvementOverRaw(rs, i) = rs[i].accuracy - rs[1].accuracy
            /\ (rs[i].accuracy > rs[1].accuracy) <=>
                   (improvementText(rs, i) = "+" \o toFixed1(rs[i].accuracy - rs[1].accuracy) \o "%")

\* The record of the report of car_1 for the question about the average monthly
\* payment of vehicles from 2020 on.
monthlyPaymentQuery(report) ==
    report.sqlQueries[CHOOSE i \in 1..Len(report.sqlQueries) :
                          report.sqlQueries[i].query = "average monthly payment 2020+"]

\* C16: in a report of car_1, the question about the average monthly payment of
\* vehicles from 2020 on has raw failed with an error, hypothesis incorrect with
\* result 156.23, annotated correct and annotated as best variant, and the
\* annotated-over-raw improvement of the same report is positive.
C16_MonthlyPaymentScenario ==
    (IsSome(svcResult) /\ Get(svcResult).database = "Car Dealership") =>
        LET report == Get(svcResult)
            q == monthlyPaymentQuery(report) IN
        /\ \E i \in 1..Len(report.sqlQueries) :
              report.sqlQueries[i].query = "average monthly payment 2020+"
        /\ ~q.schemaResults.raw.is_correct
        /\ IsSome(q.schemaResults.raw.error_message)
        /\ ~q.schemaResults.hypothesis.is_correct
        /\ q.schemaResults.hypothesis.result = "156.23"
        /\ q.schemaResults.annotated.is_correct
        /\ q.bestPerformingSchema = Some("annotated")
        /\ improvementOverRaw(report.schemaResults, 3) > 0

\* C16 witness: a report of car_1 has been returned, with the raw accuracy at its
\* floor.
C16_Witness ==
    /\ IsSome(svcResult)
    /\ Get(svcResult).database = "Car Dealership"
    /\ Len(Get(svcResult).sqlQueries) = 5
    /\ Get(results) = Get(svcResult)
    /\ improvementText(Get(svcResult).schemaResults, 3) = "+15.0%"

\* --- the interactive interview ---

\* A sequence of texts joined by single spaces, blank ones left out.
RECURSIVE spaced(_)
spaced(texts) ==
    IF texts = <<>> THEN ""
    ELSE IF Head(texts) = "" THEN spaced(Tail(texts))
    ELSE trimJoin(Head(texts), spaced(Tail(texts)))

\* The user's free-text answer to a sequence of questions, as the handler
\* recorded it under "question_N" keys.
freeTextAnswer(questionSeq, recorded) ==
    spaced([k \in 1..Len(questionSeq) |->
               IF questionSeq[k].question_type = "free_text_definitions"
               THEN propOrBlank(recorded, questionKey(k - 1))
               ELSE ""])

\* The annotations have the tables of the question set, in order, each with the
\* columns of its TableQuestionSet.
sameTablesAndColumns(questions, final) ==
    /\ Len(final) = Len(questions)
    /\ \A i \in 1..Len(questions) :
          /\ final[i].tableName = questions[i].table_name
          /\ Len(final[i].columns) = Len(questions[i].columns)
          /\ \A j \in 1..Len(questions[i].columns) :
                /\ final[i].columns[j].name = questions[i].columns[j].column_name
                /\ final[i].columns[j].type = questions[i].columns[j].data_type

\* C17: once the handler has completed and reconciliation has run, the
\* annotations have one entry per table of the question set, in order and with
\* the same columns, each table description is trim(table hypothesis + " " +
\* the table-level free-text answer the handler recorded) and each column
\* description is trim(column hypothesis + " " + the free-text answer the
\* handler recorded for that column).
C17_DescriptionsMergeRecordedAnswers ==
    IsSome(completedAnswers) =>
        LET questions == Get(completedAnswers).questions
            recorded == Get(completedAnswers).answers IN
        /\ sameTablesAndColumns(questions, generatedAnnotations)
        /\ \A i \in 1..Len(questions) :
              LET tableAnswers == propOrEmpty(recorded, questions[i].table_name) IN
              /\ generatedAnnotations[i].description =
                    trimJoin(questions[i].table_hypothesis,
                             freeTextAnswer(questions[i].table_questions,
                                            propOrEmpty(tableAnswers, "table_questions")))
              /\ \A j \in 1..Len(questions[i].columns) :
                    generatedAnnotations[i].columns[j].description =
                        trimJoin(questions[i].columns[j].hypothesis,
                                 freeTextAnswer(questions[i].columns[j].questions_for_user,
                                     propOrEmpty(tableAnswers,
                                                 questions[i].columns[j].column_name)))

\* The part of C17 that does not depend on the answers: tables and columns of
\* the annotations are those of the question set, in order.
C17_TablesAndColumnsKept ==
    IsSome(completedAnswers) =>
        sameTablesAndColumns(Get(completedAnswers).questions, generatedAnnotations)

\* text.includes(token) for the free texts of this module and the enum values
\* of the status column: the pairs <<text, token>> for which it is true.
Mentions == {<<ValueDefinitions, token>> : token \in {"available", "sold", "pending"}}

\* description.includes(token) for the description of a column: the
\* hypotheses of getColumnHypothesis name no enum value, so the token is in the
\* description exactly when it is in the free text merged after the hypothesis.
descriptionIncludes(hypothesis, description, token) ==
    \E text \in FreeTexts :
        /\ description = trimJoin(hypothesis, text)
        /\ <<text, token>> \in Mentions

\* The user defined each enum value of the column: the answer recorded for
\* its enum question (the first question of the column) is the definitions text.
definedEachValue(recorded, tableName, columnName) ==
    propOrBlank(propOrEmpty(propOrEmpty(recorded, tableName), columnName), questionKey(0))
        = ValueDefinitions

\* C18: after a completed interview in which the user defined each value of a
\* column whose enum values found are available, sold, pending, the column's
\* description in the annotations contains all three tokens.
C18_EnumTokensInDescription ==
    IsSome(completedAnswers) =>
        LET questions == Get(completedAnswers).questions
            recorded == Get(completedAnswers).answers IN
        \A i \in 1..Len(questions) : \A j \in 1..Len(questions[i].columns) :
            LET col == questions[i].columns[j] IN
            (/\ col.enum_values_found = <<"available", "sold", "pending">>
             /\ definedEachValue(recorded, questions[i].table_name, col.column_name))
            => \A k \in 1..3 :
                  descriptionIncludes(col.hypothesis,
                                      generatedAnnotations[i].columns[j].description,
                                      col.enum_values_found[k])

\* --- reconciliation on bounded inputs ---

defaultBusinessContext(tableName) == "Part of " \o tableName \o " entity definition"

\* C19: reconciliation raises no error, and wherever no answer was supplied
\* (the table is missing from the answers, has no question, or the entry is
\* absent or blank) the table description is the table hypothesis, the column
\* description is the column hypothesis and businessContext is the default
\* naming the table.
C19_UnansweredKeepsHypothesis ==
    IsSome(rcResult) =>
        LET questions == Get(rcInput).questions
            userAnswers == Get(rcInput).userAnswers
            result == Get(rcResult) IN
        /\ result.ok
        /\ sameTablesAndColumns(questions, result.annotations)
        /\ \A i \in 1..Len(questions) :
              LET tableAnswers == propOrEmpty(userAnswers, questions[i].table_name) IN
              /\ propOrBlank(tableAnswers, "table_description") = ""
                    => result.annotations[i].description = questions[i].table_hypothesis
              /\ \A j \in 1..Len(questions[i].columns) :
                    LET col == questions[i].columns[j]
                        colAnswers == propOrEmpty(tableAnswers, col.column_name)
                        column == result.annotations[i].columns[j] IN
                    /\ propOrBlank(colAnswers, "description") = ""
                          => column.description = col.hypothesis
                    /\ propOrBlank(colAnswers, "businessContext") = ""
                          => column.businessContext
                                = defaultBusinessContext(questions[i].table_name)

\* A reconciliation returned for a question set of which one table is missing
\* from the answers while another has a table description and column entries.
C19_Witness ==
    /\ IsSome(rcResult)
    /\ LET questions == Get(rcInput).questions
           userAnswers == Get(rcInput).userAnswers IN
       /\ \E i \in 1..Len(questions) :
             /\ ~hasKey(userAnswers, questions[i].table_name)
             /\ Len(questions[i].columns) > 0
             /\ Get(rcResult).annotations[i].description = questions[i].table_hypothesis
       /\ \E i \in 1..Len(questions) :
             /\ hasKey(userAnswers, questions[i].table_name)
             /\ Get(rcResult).annotations[i].description # questions[i].table_hypothesis

\* A reconciliation returned for a table with no question at all.
C19_WitnessNoQuestions ==
    /\ IsSome(rcResult)
    /\ Get(rcInput).questions = <<EmptyTableQuestionSet>>
    /\ Get(rcResult).annotations[1].description = EmptyTableQuestionSet.table_hypothesis

\* --- completeness before reconciliation ---

questionKeys(questionSeq) == {questionKey(k - 1) : k \in 1..Len(questionSeq)}

\* Number of questions of a table: its table-level ones plus those of its columns.
totalQuestionCount(tableQuestion) ==
    Len(tableQuestion.table_questions)
    + sum([j \in 1..Len(tableQuestion.columns) |->
              Len(tableQuestion.columns[j].questions_for_user)])

\* Number of questions of a table that have an answer recorded.
answeredQuestionCount(tableQuestion, recorded) ==
    LET tableAnswers == propOrEmpty(recorded, tableQuestion.table_name) IN
    Cardinality(questionKeys(tableQuestion.table_questions)
                \cap DOMAIN propOrEmpty(tableAnswers, "table_questions"))
    + sum([j \in 1..Len(tableQuestion.columns) |->
              Cardinality(questionKeys(tableQuestion.columns[j].questions_for_user)
                          \cap DOMAIN propOrEmpty(tableAnswers,
                                                  tableQuestion.columns[j].column_name))])

\* C20: onAnswersComplete is called only with answers in which, for every
\* table of the question set, the number of answered questions equals the
\* number of table-level questions plus the number of per-column questions.
C20_ReconciledOnlyWhenComplete ==
    IsSome(completedAnswers) =>
        LET questions == Get(completedAnswers).questions
            recorded == Get(completedAnswers).answers IN
        \A i \in 1..Len(questions) :
            /\ answeredQuestionCount(questions[i], recorded) = totalQuestionCount(questions[i])
            /\ getAnsweredQuestionsCount(questions, recorded, i).answered
                  = getAnsweredQuestionsCount(questions, recorded, i).total

\* onAnswersComplete was called for a question set of several tables, each
\* with questions, one of them with per-column questions.
C20_Witness ==
    /\ IsSome(completedAnswers)
    /\ Len(Get(completedAnswers).questions) >= 2
    /\ \A i \in 1..Len(Get(completedAnswers).questions) :
          totalQuestionCount(Get(completedAnswers).questions[i]) > 0
    /\ \E i \in 1..Len(Get(completedAnswers).questions) :
          LET tableQuestion == Get(completedAnswers).questions[i] IN
          totalQuestionCount(tableQuestion) > Len(tableQuestion.table_questions)

\* --- the question generators ---

hasQuestionOfType(columnQuestion, type) ==
    \E k \in 1..Len(columnQuestion.questions_for_user) :
        columnQuestion.questions_for_user[k].question_type = type

\* A free-text question that lists the values found and asks to define them.
asksToDefineValues(columnQuestion) ==
    \E k \in 1..Len(columnQuestion.questions_for_user) :
        LET question == columnQuestion.questions_for_user[k]
            listed == join(columnQuestion.enum_values_found) IN
        /\ question.question_type = "free_text_definitions"
        /\ \/ question.question_text =
                 "I found these values for " \o columnQuestion.column_name \o ": " \o listed
                 \o ". Please define what each value means and if there are other possible values I should know about."
           \/ \E hypothesis \in {edgeColumnHypothesis(columnQuestion.column_name,
                                                      columnQuestion.data_type)} :
                 question.question_text =
                    "Is my understanding of " \o columnQuestion.column_name \o " as "
                    \o hypothesis \o " correct? Please define these values: " \o listed

atLeastOneQuestion(columnQuestion) == Len(columnQuestion.questions_for_user) >= 1

enumGetsDefinitionQuestion(columnQuestion) ==
    Len(columnQuestion.enum_values_found) > 0 => asksToDefineValues(columnQuestion)

nonEnumGetsYesNo(columnQuestion) ==
    Len(columnQuestion.enum_values_found) = 0 => hasQuestionOfType(columnQuestion, "yes_no")

\* C21: every column gets at least one question; a column with enum values
\* found gets a free-text question asking to define each value, and every
\* column without enum values gets a yes/no confirmation question.
C21_QuestionKindsPerColumn ==
    IsSome(cqResult) =>
        /\ atLeastOneQuestion(Get(cqResult))
        /\ enumGetsDefinitionQuestion(Get(cqResult))
        /\ nonEnumGetsYesNo(Get(cqResult))

\* The parts of C21 that hold for both generators, and the yes/no part for the
\* edge function alone.
C21_AtLeastOneAndDefinitions ==
    IsSome(cqResult) =>
        /\ atLeastOneQuestion(Get(cqResult))
        /\ enumGetsDefinitionQuestion(Get(cqResult))
        /\ Get(cqInput).generator = "edge" => nonEnumGetsYesNo(Get(cqResult))

\* The column types of the schemas that are textual are the VARCHAR ones.
textualType(type) == includes(type, "VARCHAR")

distinctSampleValues(columnQuestion) ==
    Cardinality({columnQuestion.sample_values[k] :
                    k \in 1..Len(columnQuestion.sample_values)})

looksCategorical(columnQuestion) ==
    /\ textualType(columnQuestion.data_type)
    /\ distinctSampleValues(columnQuestion) <= 3

\* C22: enum_values_found is non-empty exactly when the column has a textual
\* type and at most 3 distinct sample values, and never holds more than 3 values.
C22_EnumIffTextualAndFewValues ==
    IsSome(cqResult) =>
        /\ Len(Get(cqResult).enum_values_found) <= 3
        /\ Len(Get(cqResult).enum_values_found) > 0 <=> looksCategorical(Get(cqResult))

\* What holds for both generators: at most 3 values, taken from a textual
\* column only; and the equivalence for the edge function alone.
C22_EnumOnlyIfTextual ==
    IsSome(cqResult) =>
        /\ Len(Get(cqResult).enum_values_found) <= 3
        /\ Len(Get(cqResult).enum_values_found) > 0 => looksCategorical(Get(cqResult))
        /\ Get(cqInput).generator = "edge" =>
              (looksCategorical(Get(cqResult)) => Len(Get(cqResult).enum_values_found) > 0)

\* --- standard mode twice ---

\* The same tables and columns, with the same column descriptions.
sameColumnsAndColumnDescriptions(first, second) ==
    /\ Len(first) = Len(second)
    /\ \A i \in 1..Len(first) :
          /\ first[i].tableName = second[i].tableName
          /\ first[i].columns = second[i].columns

\* C23: generating standard-mode heuristic annotations twice for the same
\* database and schema yields identical output.
C23_StandardRunsIdentical ==
    Len(stOutputs) = 2 => stOutputs[1] = stOutputs[2]

\* What two runs do share: tables, columns and column descriptions.
C23_StandardRunsSameColumns ==
    Len(stOutputs) = 2 => sameColumnsAndColumnDescriptions(stOutputs[1], stOutputs[2])

\* --- sample rows ---

rowsWithinBounds(sampleData, lower, upper) ==
    \A t \in 1..Len(sampleData) :
        /\ Len(sampleData[t].sampleRows) >= lower
        /\ Len(sampleData[t].sampleRows) <= upper

\* C24: whatever row limit is requested, every table gets at least the default
\* number of sample rows and at most the hard cap, and an absent limit gives
\* the default number of rows.
C24_SampleRowsBetweenDefaultAndCap ==
    IsSome(smData) =>
        /\ rowsWithinBounds(Get(smData), DefaultRowLimit, SampleRowCap)
        /\ Get(smRequest).rowLimit = None
              => rowsWithinBounds(Get(smData), DefaultRowLimit, DefaultRowLimit)

\* The upper half of C24 and the default.
C24_SampleRowsAtMostCap ==
    IsSome(smData) =>
        /\ rowsWithinBounds(Get(smData), 0, SampleRowCap)
        /\ Get(smRequest).rowLimit \in {None, Some(0)}
              => rowsWithinBounds(Get(smData), DefaultRowLimit, DefaultRowLimit)

\* --- progress of a run ---

fractionLeq(a, b) == a.num * b.den <= b.num * a.den
fractionIs(a, n) == a.num = n * a.den

\* C25: the completion fraction shown during a run starts at 0, never
\* decreases, stays within [0, 100], and is 100 only when the last phase has
\* finished and the result is available.
C25_ProgressMonotoneToResult ==
    /\ [](/\ fractionLeq(Fraction(0, 1), progress)
          /\ fractionLeq(progress, Fraction(100, 1))
          /\ fractionIs(progress, 100) =>
                /\ IsSome(results)
                /\ runI = Len(RunnerPhases)
                /\ svcNext = Len(SvcPhases) + 1)
    /\ [][/\ fractionLeq(progress, progress')
          /\ (~isRunning /\ isRunning') => fractionIs(progress', 0)]_vars

\* A run that went through every phase and shows 100 with its result.
C25_Witness ==
    /\ fractionIs(progress, 100)
    /\ IsSome(results)
    /\ ~isRunning
    /\ Len(svcLog) = Len(SvcPhases)

\* --- termination of a run ---

\* C26: a run that has started eventually finishes, with a report or an error,
\* even if an external call never returns.
C26_RunEventuallyFinishes ==
    (hPc # "idle") ~> (hPc = "done" /\ IsSome(hResponse))

\* --- the wizard ---

C27_StepPrerequisitesHoldWithoutLateResult ==
    ~wzLateResult =>
        (wzState.currentStep \in 2..5 => canProceedToStep(wzState, wzState.currentStep))


\* --- the table on display ---

\* C28: whatever question set the handler is mounted with (N >= 0 tables) and
\* whatever Next and Previous do, the current table index names one of its
\* tables: 0 <= currentTableIndex <= N - 1.
C28_IndexNamesATable ==
    IsSome(interactiveResult) =>
        /\ 0 <= currentTableIndex
        /\ currentTableIndex <= Len(Get(interactiveResult)) - 1

\* The same for question sets with at least one table.
C28_IndexNamesATableOfNonEmptySet ==
    (IsSome(interactiveResult) /\ Len(Get(interactiveResult)) >= 1) =>
        /\ 0 <= currentTableIndex
        /\ currentTableIndex <= Len(Get(interactiveResult)) - 1

\* Next on the last table does not advance the index and Previous on the
\* first table does not decrease it: a step that changes the index starts
\* on a page that rendered and ends on a table of the same question set.
C28_NextAndPreviousStayInside ==
    [][(IsSome(interactiveResult) /\ currentTableIndex' # currentTableIndex)
          => /\ interactiveResult' = interactiveResult
             /\ currentTableIndex' \in 0..(Len(Get(interactiveResult)) - 1)
             /\ currentTableIndex' \in {currentTableIndex - 1, currentTableIndex + 1}]_vars


\* --- the progress timer ---

\* C29: once handleGenerateAnnotations has finished (isGenerating is false
\* again), resolved or rejected, none of the interval timers it started is
\* still set.
C29_NoTimerAfterFinish == ~agIsGenerating => agTimers = 0


\* --- the saved-runs store ---

occurrences(runs, run) == Cardinality({ i \in DOMAIN runs : runs[i] = run })

\* Every run that was saved and not deleted since is returned exactly once,
\* as it was saved; a deleted run is not returned.
returnedExactlyOnce ==
    LET returned == getSavedRuns(srStorage) IN
    /\ \A n \in 1..Len(srSaved) :
          occurrences(returned, srSaved[n]) = IF n \in srDeleted THEN 0 ELSE 1
    /\ Len(returned) = Len(srSaved) - Cardinality(srDeleted)

\* No returned run is older than a run returned after it.
newestFirst ==
    LET returned == getSavedRuns(srStorage) IN
    \A i, j \in DOMAIN returned :
        i < j => Get(returned[i].created_at) >= Get(returned[j].created_at)

\* A step that ends with a delete of run id X as the last operation leaves no
\* stored run with run_id X and keeps every other stored run, once each and
\* in the order they had.
deleteRemovesExactly ==
    srLastOp'.op = "delete" =>
        LET before == storedRuns(srStorage)
            after == storedRuns(srStorage')
        IN /\ \A i \in DOMAIN after : after[i].run_id # srLastOp'.id
           /\ \A i \in DOMAIN before :
                 before[i].run_id # srLastOp'.id =>
                     occurrences(after, before[i]) = 1
           /\ \A i, j \in DOMAIN after :
                 i < j => after[i].seq < after[j].seq

\* C30: after any sequence of saves and deletes, getSavedRuns returns every
\* saved and not deleted run exactly once, newest first; deleteEvaluationRun(id)
\* removes exactly the stored runs whose run_id is id and leaves the others
\* unchanged.
C30_SavedRunsStore ==
    /\ [](returnedExactlyOnce /\ newestFirst)
    /\ [][deleteRemovesExactly]_vars

\* Two runs saved at different times and in stored order oldest first, one
\* more run deleted, the delete being the last operation.
C30_Witness ==
    /\ srLastOp.op = "delete"
    /\ srDeleted # {}
    /\ Len(storedRuns(srStorage)) >= 2
    /\ timeOf(storedRuns(srStorage)[1]) < timeOf(storedRuns(srStorage)[2])
    /\ getSavedRuns(srStorage) # storedRuns(srStorage)

\* Two saves in the same millisecond drew the same suffix: one delete removed
\* both runs.
C30_WitnessSameRunId ==
    \E m, n \in srDeleted : m # n /\ srSaved[m].run_id = srSaved[n].run_id

====
